---- MODULE Spec2Model ----
(***************************************************************************)
(* A model of the mp3gonCrystals offline audio transformation engine       *)
(* (services/audioProcessor, held in src/components/VisualizerModal.tsx    *)
(* from line 223 on) and of the App component that dispatches to it        *)
(* (src/unnamed/part_000).                                                 *)
(*                                                                         *)
(* NUMBERS.  JavaScript numbers are modelled exactly, as elements of the   *)
(* real field Q(c), c = 2*cos(pi/8): a number is [v |-> <<a0,a1,a2,a3>>,   *)
(* d |-> D], standing for (a0 + a1*c + a2*c^2 + a3*c^3) / D, with D > 0    *)
(* and the five integers coprime.  The rationals are the numbers with      *)
(* a1 = a2 = a3 = 0; sin and cos of every multiple of pi/8 are in the      *)
(* field, so the sine and cosine tables of the transforms of size 1, 2, 4  *)
(* and 8 are exact.  Rounding to 32-bit floats is not modelled.            *)
(*                                                                         *)
(* SCALE.  The frame counts of the source (512-frame chunks, 8192-point    *)
(* spectra) are scaled down so that the buffers can be enumerated: the     *)
(* constants below say which.                                              *)
(***************************************************************************)
EXTENDS Integers, Sequences, FiniteSets, TLC

\* ------------------------------------------------------------------------
\* Numbers: exact arithmetic in Q(c), c = 2 cos(pi/8), c^4 = 4 c^2 - 2
\* ------------------------------------------------------------------------

\* The element of a one-element set.  An operator that reads an argument
\* more than once binds it first, Only({e(a) : a \in {x}}), so that the
\* argument is evaluated once.
Only(S) == CHOOSE e \in S : TRUE

IAbs(x) == IF x < 0 THEN -x ELSE x

ISgn(x) == IF x > 0 THEN 1 ELSE IF x < 0 THEN -1 ELSE 0

RECURSIVE GCD(_, _)
GCD(a, b) == IF b = 0 THEN a ELSE GCD(b, a % b)

\* The number (v[1] + v[2] c + v[3] c^2 + v[4] c^3) / d in lowest terms.
Norm(v, d) ==
    Only({ Only({ [v |-> <<w[1] \div g, w[2] \div g, w[3] \div g, w[4] \div g>>, d |-> e \div g] :
                  g \in {IF e < 0
                         THEN -GCD(GCD(GCD(GCD(IAbs(e), IAbs(w[1])), IAbs(w[2])), IAbs(w[3])), IAbs(w[4]))
                         ELSE GCD(GCD(GCD(GCD(IAbs(e), IAbs(w[1])), IAbs(w[2])), IAbs(w[3])), IAbs(w[4]))} }) :
           w \in {v}, e \in {d} })

\* The rational p/q (q # 0).
Frac(p, q) == Norm(<<p, 0, 0, 0>>, q)

Num(k) == Frac(k, 1)

Zero == Num(0)

One == Num(1)

\* x + y over the least common denominator: p = y.d / g, q = x.d / g.
NAdd(x, y) ==
    Only({ Only({ Norm(<<a.v[1] * p + b.v[1] * q, a.v[2] * p + b.v[2] * q,
                         a.v[3] * p + b.v[3] * q, a.v[4] * p + b.v[4] * q>>, a.d * p) :
                  p \in {b.d \div GCD(a.d, b.d)}, q \in {a.d \div GCD(a.d, b.d)} }) :
           a \in {x}, b \in {y} })

NNeg(x) == Only({ [v |-> <<-a.v[1], -a.v[2], -a.v[3], -a.v[4]>>, d |-> a.d] : a \in {x} })

NSub(x, y) == NAdd(x, NNeg(y))

\* The product of two polynomials in c, reduced by c^4 = 4c^2 - 2,
\* c^5 = 4c^3 - 2c, c^6 = 14c^2 - 8.
NMul(x, y) ==
    Only({ LET m0 == a[1] * b[1]
               m1 == a[1] * b[2] + a[2] * b[1]
               m2 == a[1] * b[3] + a[2] * b[2] + a[3] * b[1]
               m3 == a[1] * b[4] + a[2] * b[3] + a[3] * b[2] + a[4] * b[1]
               m4 == a[2] * b[4] + a[3] * b[3] + a[4] * b[2]
               m5 == a[3] * b[4] + a[4] * b[3]
               m6 == a[4] * b[4]
           IN  Norm(<<m0 - 2 * m4 - 8 * m6, m1 - 2 * m5,
                      m2 + 4 * m4 + 14 * m6, m3 + 4 * m5>>, e) :
           a \in {x.v}, b \in {y.v}, e \in {x.d * y.d} })

IsRational(x) == Only({ a[2] = 0 /\ a[3] = 0 /\ a[4] = 0 : a \in {x.v} })

\* x / y for a rational y # 0 (every divisor of the source is one: a size,
\* a count, a sample rate, or the peak of a rational envelope).
NDiv(x, y) ==
    Only({ Only({ Norm(<<a.v[1] * p, a.v[2] * p, a.v[3] * p, a.v[4] * p>>, q * b.v[1]) :
                  p \in {b.d \div GCD(a.d, b.d)}, q \in {a.d \div GCD(a.d, b.d)} }) :
           a \in {x}, b \in {y} })

\* The sign of p + q*sqrt(2).
SignQ2(p0, q0) ==
    Only({ IF p >= 0 /\ q >= 0 THEN (IF p = 0 /\ q = 0 THEN 0 ELSE 1)
           ELSE IF p <= 0 /\ q <= 0 THEN -1
           ELSE IF p > 0 THEN ISgn(p * p - 2 * q * q)
           ELSE ISgn(2 * q * q - p * p) :
           p \in {p0}, q \in {q0} })

\* The sign of a0 + a1 c + a2 c^2 + a3 c^3 = A + c*B, with A = A1 + A2 sqrt 2
\* and B = B1 + B2 sqrt 2 (c^2 = 2 + sqrt 2): decided by the signs of A and
\* B and, when they differ, by the sign of A^2 - c^2 B^2.
SignAB(A1, A2, B1, B2) ==
    Only({ IF sB = 0 THEN sA
           ELSE IF sA = 0 \/ sA = sB THEN sB
           ELSE Only({ IF sA > 0 THEN s ELSE -s :
                       s \in {SignQ2(A1 * A1 + 2 * A2 * A2 - (2 * u + 2 * w),
                                     2 * A1 * A2 - (u + 2 * w))} }) :
           sA \in {SignQ2(A1, A2)}, sB \in {SignQ2(B1, B2)},
           u \in {B1 * B1 + 2 * B2 * B2}, w \in {2 * B1 * B2} })

SignExact(v) == Only({ SignAB(a[1] + 2 * a[3], a[3], a[2] + 2 * a[4], a[4]) : a \in {v} })

\* The same sign from c, c^2, c^3 to four decimals when that decides it
\* (each constant is within 1/10000 of its value), exactly otherwise.
NSign(x) ==
    Only({ IF a[2] = 0 /\ a[3] = 0 /\ a[4] = 0 THEN ISgn(a[1])
           ELSE Only({ IF S > E THEN 1 ELSE IF S < -E THEN -1 ELSE SignExact(a) :
                       S \in {10000 * a[1] + 18478 * a[2] + 34142 * a[3] + 63086 * a[4]},
                       E \in {IAbs(a[2]) + IAbs(a[3]) + IAbs(a[4])} }) :
           a \in {x.v} })

NLt(x, y) == NSign(NSub(x, y)) < 0

NGt(x, y) == NSign(NSub(x, y)) > 0

NLeq(x, y) == NSign(NSub(x, y)) <= 0

\* Math.abs left out.
NAbs_Identity(x) == x

NAbs(x) == Only({ IF NSign(a) < 0 THEN NNeg(a) ELSE a : a \in {x} })

\* cos(pi*m/8) and sin(pi*m/8), m in 0..7.
CosPi8(m) ==
    CASE m = 0 -> One
      [] m = 1 -> Norm(<<0, 1, 0, 0>>, 2)
      [] m = 2 -> Norm(<<-2, 0, 1, 0>>, 2)
      [] m = 3 -> Norm(<<0, -3, 0, 1>>, 2)
      [] m = 4 -> Zero
      [] m = 5 -> Norm(<<0, 3, 0, -1>>, 2)
      [] m = 6 -> Norm(<<2, 0, -1, 0>>, 2)
      [] m = 7 -> Norm(<<0, -1, 0, 0>>, 2)

SinPi8(m) == IF m <= 4 THEN CosPi8(4 - m) ELSE CosPi8(m - 4)

\* ------------------------------------------------------------------------
\* getFFT
\* ------------------------------------------------------------------------

\* The sizes whose tables the field holds.
TableSizes == {1, 2, 4, 8}

\* JavaScript's x & y on integers, two's complement.
RECURSIVE BitAnd(_, _)
BitAnd(x, y) ==
    IF x = 0 \/ y = 0 THEN 0
    ELSE IF x = -1 THEN y
    ELSE IF y = -1 THEN x
    ELSE (x % 2) * (y % 2) + 2 * BitAnd(x \div 2, y \div 2)

\* The guard without its test of the sign.
InvalidSize_NoSignTest(size) == BitAnd(size, size - 1) # 0

\* The guard of getFFT: the sizes for which it throws.
InvalidSize(size) == size <= 0 \/ BitAnd(size, size - 1) # 0

RECURSIVE Log2(_)
Log2(size) == IF size <= 1 THEN 0 ELSE 1 + Log2(size \div 2)

\* (i >> j) & 1
Bit(i, j) == (i \div (2 ^ j)) % 2

RECURSIVE ReverseBits(_, _, _)
ReverseBits(i, j, log2size) ==
    IF j >= log2size THEN 0
    ELSE (IF Bit(i, j) = 1 THEN 2 ^ (log2size - 1 - j) ELSE 0) + ReverseBits(i, j + 1, log2size)

bitReverse(size) == [i \in 0 .. size - 1 |-> ReverseBits(i, 0, Log2(size))]

sinTable(size) == [i \in 0 .. size - 1 |-> SinPi8(i * (8 \div size))]

cosTable(size) == [i \in 0 .. size - 1 |-> CosPi8(i * (8 \div size))]

\* The swap loop without its test j > i: every i with table[i] # i swaps.
RECURSIVE Permute_NoOrderTest(_, _, _)
Permute_NoOrderTest(st, size, i) ==
    IF i >= size THEN st
    ELSE Only({ IF j # i
                THEN Permute_NoOrderTest([re |-> [s.re EXCEPT ![i] = s.re[j], ![j] = s.re[i]],
                                          im |-> [s.im EXCEPT ![i] = s.im[j], ![j] = s.im[i]]], size, i + 1)
                ELSE Permute_NoOrderTest(s, size, i + 1) :
                s \in {st}, j \in {bitReverse(size)[i]} })

\* The swap loop of the bit-reversal permutation, from index i.
RECURSIVE Permute(_, _, _)
Permute(st, size, i) ==
    IF i >= size THEN st
    ELSE Only({ IF j > i
                THEN Permute([re |-> [s.re EXCEPT ![i] = s.re[j], ![j] = s.re[i]],
                              im |-> [s.im EXCEPT ![i] = s.im[j], ![j] = s.im[i]]], size, i + 1)
                ELSE Permute(s, size, i + 1) :
                s \in {st}, j \in {bitReverse(size)[i]} })

\* The twiddle factor of the forward transform whatever invert is.
Twiddle_Forward(size, len, j, invert) ==
    Only({ [re |-> cosTable(size)[k], im |-> sinTable(size)[k]] : k \in {j * (size \div len)} })

\* The twiddle factor read from the tables for position j of a stage.
Twiddle(size, len, j, invert) ==
    Only({ [re |-> cosTable(size)[k],
            im |-> IF invert THEN NNeg(sinTable(size)[k]) ELSE sinTable(size)[k]] :
           k \in {j * (size \div len)} })

\* One butterfly: positions a = i + j and b = i + j + halfLen of both arrays.
Butterfly(st, size, len, i, j, invert) ==
    Only({ Only({ [re |-> [s.re EXCEPT ![a] = NAdd(s.re[a], x_re), ![b] = NSub(s.re[a], x_re)],
                   im |-> [s.im EXCEPT ![a] = NAdd(s.im[a], x_im), ![b] = NSub(s.im[a], x_im)]] :
                  x_re \in {NSub(NMul(s.re[b], t.re), NMul(s.im[b], t.im))},
                  x_im \in {NAdd(NMul(s.re[b], t.im), NMul(s.im[b], t.re))} }) :
           s \in {st}, t \in {Twiddle(size, len, j, invert)},
           a \in {i + j}, b \in {i + j + len \div 2} })

RECURSIVE Butterflies(_, _, _, _, _, _)
Butterflies(st, size, len, i, j, invert) ==
    IF i >= size THEN st
    ELSE IF j >= len \div 2 THEN Butterflies(st, size, len, i + len, 0, invert)
    ELSE Only({ Butterflies(s, size, len, i, j + 1, invert) :
                s \in {Butterfly(st, size, len, i, j, invert)} })

RECURSIVE Stages(_, _, _, _)
Stages(st, size, len, invert) ==
    IF len > size THEN st
    ELSE Only({ Stages(s, size, len * 2, invert) :
                s \in {Butterflies(st, size, len, 0, 0, invert)} })

\* The loop that divides every sample by size, from index i.
RECURSIVE Scale(_, _, _)
Scale(st, size, i) ==
    IF i >= size THEN st
    ELSE Only({ Scale([re |-> [s.re EXCEPT ![i] = NDiv(s.re[i], Num(size))],
                       im |-> [s.im EXCEPT ![i] = NDiv(s.im[i], Num(size))]], size, i + 1) :
                s \in {st} })

\* The closure getFFT(size) returns, applied to the arrays st.re and st.im.
fft(size, st, invert) ==
    Only({ Only({ IF invert THEN Scale(out, size, 0) ELSE out :
                  out \in {Stages(permuted, size, 2, invert)} }) :
           permuted \in {Permute(st, size, 0)} })

\* ------------------------------------------------------------------------
\* PCM buffers (AudioBuffer)
\* ------------------------------------------------------------------------

\* An AudioBuffer: channels[c + 1] is getChannelData(c), an array indexed
\* from 0.  id tells the buffer objects apart: a buffer that a function
\* allocates has the id "new".
Buffer(id, sampleRate, channels) ==
    [id |-> id, numberOfChannels |-> Len(channels),
     length |-> Cardinality(DOMAIN channels[1]), sampleRate |-> sampleRate, channels |-> channels]

getChannelData(buffer, c) == buffer.channels[c + 1]

\* createBuffer(numberOfChannels, length, sampleRate): all samples zero.
createBuffer(numberOfChannels, length, sampleRate) ==
    [id |-> "new", numberOfChannels |-> numberOfChannels, length |-> length, sampleRate |-> sampleRate,
     channels |-> [c \in 1 .. numberOfChannels |-> [i \in 0 .. length - 1 |-> Zero]]]

\* The buffers of 1 .. maxSamples samples over the given channel counts,
\* sample values and sample rates.
Buffers(id, counts, maxSamples, samples, rates) ==
    UNION { UNION { { Buffer(id, sr, d) : d \in [1 .. n -> [0 .. len - 1 -> samples]], sr \in rates } :
                    len \in 1 .. (maxSamples \div n) } :
            n \in counts }

NoBuffer == [id |-> "none"]

NoFeatCall == [op |-> "none"]

NoOpCall == [op |-> "none"]

NoFileCall == [outcome |-> "none"]

Null == [id |-> "null"]

\* The members of the enum TransformationType.
AMPLITUDE == "Amplitude Mapping"

SPECTRAL == "Spectral Shaping"

RHYTHMIC == "Rhythmic Gating"

CONVOLUTION == "Convolution Morphing"

TIME_WARP == "Time Scale Warping"

SURFACE_TRANSLATE == "Surface Translation"

FOURIER_MASKING == "Fourier Masking"

HARMONIC_IMPRINT == "Harmonic Imprinting"

INTERFERENCE_ECHOES == "Interference Echoes"

FORMANT_SHIFTING == "Formant Shifting"

DYNAMIC_RING_MOD == "Dynamic Ring Modulation"

TRANSFORMATION_MORPH == "Transformation Morphing"

\* morphableTransformations: every type but the morph itself.
morphableTransformations ==
    {AMPLITUDE, SPECTRAL, RHYTHMIC, CONVOLUTION, TIME_WARP, SURFACE_TRANSLATE, FOURIER_MASKING,
     HARMONIC_IMPRINT, INTERFERENCE_ECHOES, FORMANT_SHIFTING, DYNAMIC_RING_MOD}

TransformationType == morphableTransformations \cup {TRANSFORMATION_MORPH}

\* A value that is no member of the enum, which nothing excludes at run time.
UnknownType == "Unknown"

\* getDefaultParams(): the defaultValue of each parameter the model reads.
getDefaultParams ==
    [gateThreshold |-> Frac(1, 5), spectralMix |-> One, transientSensitivity |-> Frac(9, 5),
     surfaceJitter |-> Zero, numHarmonics |-> 12, numFormants |-> 4, morphPosition |-> Frac(1, 2)]

\* ------------------------------------------------------------------------
\* State
\* ------------------------------------------------------------------------

VARIABLES
    fftCache,   \* the sizes that are keys of the module-level Map fftCache
    fftCall,    \* the last getFFT call: its size and how it ended
    arr,        \* the arrays real and imag a transform works on in place
    arrIn,      \* the same arrays as they were first filled
    applied,    \* the invert flags of the transforms applied to arr so far
    featBuf,    \* the buffer handed to a feature extractor
    featCall,   \* the last extractor call: its arguments and what it returned
    sourceBuffer,   \* the source buffer handed to an operator
    targetBuffer,   \* the target buffer handed to an operator
    opCall,     \* the last operator call: its arguments and what it returned
    transformation,         \* App state: the selected transformation type
    morphA,                 \* App state: operator A of the morph
    morphB,                 \* App state: operator B of the morph
    transformationParams,   \* App state: the parameters
    processedAudio,         \* App state: the result shown, or Null
    error,                  \* App state: the error message shown, or Null
    isLoading,              \* App state: the busy flag
    fileCall,   \* the last handleFileTransform run: what it dispatched to and how that ended
    sourceType,             \* App state: where the source comes from, a file or the microphone
    isLive,                 \* App state: live processing is running
    micStream,              \* App state: the microphone stream, or Null
    morphCall,  \* an applyTransformationMorph call: its two sub-calls and where it stands
    fftEntries, \* the values of the Map fftCache: the tables each cached transform closes over
    fftBuild,   \* the getFFT call that is running: its size and the tables it has filled so far
    inFlight,   \* the awaits of the App that have not settled
    audioGraph, \* the offline contexts made by a call: their nodes' connections and their renders
    processor,  \* the LiveAudioProcessor: its fields and its start calls under way
    manager,    \* the SonificationManager: its fields and its generation under way
    generation  \* a generateGeometryData call: its steps, its progress reports, its promise

fftVars == <<fftCache, fftCall, arr, arrIn, applied>>

featVars == <<featBuf, featCall>>

opVars == <<sourceBuffer, targetBuffer, opCall>>

appVars ==
    <<transformation, morphA, morphB, transformationParams, processedAudio, error, isLoading, fileCall,
      sourceType, isLive, micStream>>

callVars == <<morphCall, fftEntries, fftBuild, inFlight>>

svcVars == <<audioGraph, processor, manager, generation>>

vars == <<fftVars, featVars, opVars, appVars, callVars, svcVars>>

\* The members of the enum SourceType.
FILE == "File"

LIVE == "Live"

NoMorphCall == [pc |-> "none"]

NoBuild == [pc |-> "none"]

\* No offline context made.
NoGraph == [pc |-> "none"]

\* No LiveAudioProcessor constructed.
NoProcessor == [pc |-> "none"]

\* No SonificationManager constructed.
NoManager == [pc |-> "none"]

\* No generateGeometryData call made.
NoGeneration == [pc |-> "none"]

\* No call running and nothing cached, no service in use.
NoCalls ==
    /\ morphCall = NoMorphCall
    /\ fftEntries = <<>>
    /\ fftBuild = NoBuild
    /\ inFlight = {}
    /\ audioGraph = NoGraph
    /\ processor = NoProcessor
    /\ manager = NoManager
    /\ generation = NoGeneration

\* The App as its useState calls leave it, no transform run yet.
AppConstructed ==
    /\ transformation = AMPLITUDE
    /\ morphA = AMPLITUDE
    /\ morphB = SPECTRAL
    /\ transformationParams = getDefaultParams
    /\ processedAudio = Null
    /\ error = Null
    /\ isLoading = FALSE
    /\ fileCall = NoFileCall
    /\ sourceType = FILE
    /\ isLive = FALSE
    /\ micStream = Null
    /\ NoCalls

\* ------------------------------------------------------------------------
\* The transform: getFFT calls and in-place transforms of two arrays
\* ------------------------------------------------------------------------

\* The largest size handed to getFFT besides 300, 512 and 1024.
MaxSizeArg == 9

\* The most non-zero entries of the arrays a transform is applied to.
MaxSupport == 2

SizeArgs == (-2 .. MaxSizeArg) \cup {300, 512, 1024}

FftSamples == {Num(-1), Num(1)}

NoCall == [size |-> 0, outcome |-> "none"]

NoArrays == [size |-> 0, re |-> <<>>, im |-> <<>>]

\* getFFT(size): what the call does to the cache and how it ends.
getFFT(cache, size) ==
    IF InvalidSize(size)
    THEN [cache |-> cache, outcome |-> "throw"]
    ELSE [cache |-> cache \cup {size}, outcome |-> "return"]

\* real (positions 0..size-1) and imag (positions size..2*size-1), zero but
\* for the entries e[1], e[2], ... = <<position, value>>.
RECURSIVE Filled(_, _, _)
Filled(size, e, n) ==
    IF n = 0
    THEN [size |-> size, re |-> [i \in 0 .. size - 1 |-> Zero], im |-> [i \in 0 .. size - 1 |-> Zero]]
    ELSE LET a == Filled(size, e, n - 1)
             p == e[n][1]
         IN  IF p < size THEN [a EXCEPT !.re[p] = e[n][2]] ELSE [a EXCEPT !.im[p - size] = e[n][2]]

InitFFT ==
    /\ fftCache = {}
    /\ fftCall = NoCall
    /\ applied = <<>>
    /\ \/ arr = NoArrays
       \/ \E size \in TableSizes :
            \E e \in [1 .. MaxSupport -> (0 .. 2 * size - 1) \X FftSamples] :
                arr = Filled(size, e, MaxSupport)
    /\ arrIn = arr
    /\ featBuf = NoBuffer
    /\ featCall = NoFeatCall
    /\ sourceBuffer = NoBuffer
    /\ targetBuffer = NoBuffer
    /\ opCall = NoOpCall
    /\ AppConstructed

\* A call of getFFT by itself, as runAudioProcessorTests makes.
GetFFT(size) ==
    /\ arr = NoArrays
    /\ LET r == getFFT(fftCache, size)
       IN  /\ fftCache' = r.cache
           /\ fftCall' = [size |-> size, outcome |-> r.outcome]
    /\ UNCHANGED <<arr, arrIn, applied, featVars, svcVars, opVars, appVars, callVars>>

\* fft(real, imag, invert) with fft = getFFT(real.length).
Transform(invert) ==
    /\ arr # NoArrays
    /\ Len(applied) < 2
    /\ LET r == getFFT(fftCache, arr.size)
           out == fft(arr.size, [re |-> arr.re, im |-> arr.im], invert)
       IN  /\ fftCache' = r.cache
           /\ fftCall' = [size |-> arr.size, outcome |-> r.outcome]
           /\ arr' = [size |-> arr.size, re |-> out.re, im |-> out.im]
    /\ applied' = Append(applied, invert)
    /\ UNCHANGED <<arrIn, featVars, svcVars, opVars, appVars, callVars>>

NextFFT ==
    \/ \E size \in SizeArgs : GetFFT(size)
    \/ \E invert \in BOOLEAN : Transform(invert)

SpecFFT == InitFFT /\ [][NextFFT]_vars

\* ------------------------------------------------------------------------
\* Feature extractors: detectTransients and getAmplitudeEnvelope
\* ------------------------------------------------------------------------
\* A behaviour makes one extractor call on the buffer it starts with.

\* chunkSize of detectTransients: 512 in the source, 2 here.
ChunkSize == 2

\* The default minSeparationMs of detectTransients.
MinSeparationMs == 50

\* The most samples (frames times channels) of a buffer handed to an extractor.
MaxFeatSamples == 6

FeatSamples == {Num(-1), Num(0), Num(2)}

\* Rates for which minSeparation is 1, 2 and 5 frames: about half a chunk,
\* one chunk and more than two chunks (2205 frames against chunks of 512
\* at 44100 Hz).
FeatRates == {20, 40, 100}

Thresholds == {Num(-1), Num(0), Num(1), Frac(9, 5), Num(4)}

Smoothings == {Frac(1, 2), Frac(9, 10)}

IMin(a, b) == IF a < b THEN a ELSE b

IMax(a, b) == IF a > b THEN a ELSE b

\* sumOfSquares over data[j .. end - 1].
RECURSIVE SumOfSquares(_, _, _)
SumOfSquares(data, j, end) ==
    IF j >= end THEN Zero ELSE NAdd(NMul(data[j], data[j]), SumOfSquares(data, j + 1, end))

\* The square of the energy pushed for the chunk that starts at frame i:
\* sumOfSquares / (end - i).  The energy itself is its square root.
ChunkMeanSquare(data, length, i) ==
    Only({ NDiv(SumOfSquares(data, i, end), Num(end - i)) : end \in {IMin(i + ChunkSize, length)} })

\* energies, by its squares: one entry per chunk, indexed from 0.
EnergySquares(data, length) ==
    [k \in 0 .. ((length + ChunkSize - 1) \div ChunkSize) - 1 |-> ChunkMeanSquare(data, length, k * ChunkSize)]

\* energies[i] > energies[i - 1] * threshold, on the squares: both sides
\* are compared squared when the threshold is not negative; a negative
\* threshold makes the right side negative or zero.
EnergyRises(curSq, prevSq, threshold) ==
    IF NSign(threshold) >= 0
    THEN NGt(curSq, NMul(prevSq, NMul(threshold, threshold)))
    ELSE NSign(curSq) > 0 \/ NSign(prevSq) > 0

\* Every rise of the energy accepted, whatever its distance to the last one.
Separated_Any(sampleIndex, lastTransient, minSeparation) == TRUE

\* sampleIndex - lastTransient > minSeparation
Separated(sampleIndex, lastTransient, minSeparation) == sampleIndex - lastTransient > minSeparation

\* The loop over the chunks from chunk i on.
RECURSIVE TransientLoop(_, _, _, _, _, _, _)
TransientLoop(energies, n, i, transients, lastTransient, threshold, minSeparation) ==
    IF i >= n THEN transients
    ELSE IF EnergyRises(energies[i], energies[i - 1], threshold)
            /\ Separated(i * ChunkSize, lastTransient, minSeparation)
         THEN TransientLoop(energies, n, i + 1, Append(transients, i * ChunkSize), i * ChunkSize,
                            threshold, minSeparation)
         ELSE TransientLoop(energies, n, i + 1, transients, lastTransient, threshold, minSeparation)

\* The final frame pushed without the test.
WithFinalFrame_Always(transients, length) == Append(transients, length - 1)

\* The final frame, pushed when it is not already the last entry.
WithFinalFrame(transients, length) ==
    IF transients[Len(transients)] < length - 1 THEN Append(transients, length - 1) ELSE transients

\* Math.floor(sampleRate * (minSeparationMs / 1000))
MinSeparation(sampleRate, minSeparationMs) == (sampleRate * minSeparationMs) \div 1000

detectTransients(buffer, threshold, minSeparationMs) ==
    Only({ WithFinalFrame(TransientLoop(energies, Cardinality(DOMAIN energies), 1, <<0>>, 0, threshold,
                                        MinSeparation(buffer.sampleRate, minSeparationMs)),
                          buffer.length) :
           energies \in {EnergySquares(getChannelData(buffer, 0), buffer.length)} })

\* The one-pole follower over inputData from frame i on.
RECURSIVE FollowLoop(_, _, _, _, _, _)
FollowLoop(outputData, inputData, length, i, lastValue, smoothing) ==
    IF i >= length THEN outputData
    ELSE Only({ FollowLoop([outputData EXCEPT ![i] = v], inputData, length, i + 1, v, smoothing) :
                v \in {NAdd(NMul(smoothing, lastValue),
                            NMul(NSub(One, smoothing), NAbs(inputData[i])))} })

\* maxVal after the loop over outputData from frame i on.
RECURSIVE MaxLoop(_, _, _, _)
MaxLoop(outputData, length, i, maxVal) ==
    IF i >= length THEN maxVal
    ELSE MaxLoop(outputData, length, i + 1, IF NGt(outputData[i], maxVal) THEN outputData[i] ELSE maxVal)

\* The division loop, made only when maxVal > 0.
Normalized(outputData, length, maxVal) ==
    IF NSign(maxVal) > 0
    THEN [i \in 0 .. length - 1 |-> NDiv(outputData[i], maxVal)]
    ELSE outputData

EnvelopeChannel(inputData, length, smoothing) ==
    Only({ Normalized(outputData, length, MaxLoop(outputData, length, 0, Zero)) :
           outputData \in {FollowLoop([i \in 0 .. length - 1 |-> Zero], inputData, length, 0, Zero, smoothing)} })

getAmplitudeEnvelope(buffer, smoothing) ==
    [createBuffer(buffer.numberOfChannels, buffer.length, buffer.sampleRate) EXCEPT
        !.channels = [c \in 1 .. buffer.numberOfChannels |->
                        EnvelopeChannel(getChannelData(buffer, c - 1), buffer.length, smoothing)]]

InitFeat ==
    /\ fftCache = {}
    /\ fftCall = NoCall
    /\ applied = <<>>
    /\ arr = NoArrays
    /\ arrIn = NoArrays
    /\ featBuf \in Buffers("input", {1, 2}, MaxFeatSamples, FeatSamples, FeatRates)
    /\ featCall = NoFeatCall
    /\ sourceBuffer = NoBuffer
    /\ targetBuffer = NoBuffer
    /\ opCall = NoOpCall
    /\ AppConstructed

DetectTransients(threshold) ==
    /\ featCall = NoFeatCall
    /\ featCall' = [op |-> "detectTransients", threshold |-> threshold,
                    transients |-> detectTransients(featBuf, threshold, MinSeparationMs)]
    /\ UNCHANGED <<featBuf, fftVars, opVars, appVars, callVars, svcVars>>

GetAmplitudeEnvelope(smoothing) ==
    /\ featCall = NoFeatCall
    /\ featCall' = [op |-> "getAmplitudeEnvelope", smoothing |-> smoothing,
                    envelope |-> getAmplitudeEnvelope(featBuf, smoothing)]
    /\ UNCHANGED <<featBuf, fftVars, opVars, appVars, callVars, svcVars>>

NextFeat ==
    \/ \E threshold \in Thresholds : DetectTransients(threshold)
    \/ \E smoothing \in Smoothings : GetAmplitudeEnvelope(smoothing)

SpecFeat == InitFeat /\ [][NextFeat]_vars

\* ------------------------------------------------------------------------
\* The operators on a source and a target buffer
\* ------------------------------------------------------------------------
\* A behaviour makes one operator call on the buffers it starts with: the
\* operators read nothing but their arguments and the transform's tables.

\* fftSize of detectFormants and detectHarmonics: 8192 in the source, 8 here.
PeakFFTSize == 8

\* The band of detectFormants, in Hz.
MinFreq == 300

MaxFreq == 5000

\* The seconds applyInterferenceEchoes adds to the target's length.
EchoTail == 4

\* The smoothing applyRhythmicGating asks of getAmplitudeEnvelope.
GateSmoothing == Frac(499, 500)

\* The threshold applyInterferenceEchoes hands to detectTransients.
EchoSensitivity == Frac(9, 5)

\* The most samples (frames times channels) of a buffer handed to an operator.
MaxOpSamples == 3

\* A source of three frames can have a peak in the scaled spectrum.
SourceSamples == {Num(-1), Num(0), Num(1)}

TargetSamples == {Num(0), Frac(-1, 2)}

SourceRates == {8000}

\* With 800 Hz one bin of the scaled spectrum lies in the formant band,
\* with 8000 Hz all three do.
TargetRates == {800, 8000}

GateThresholds == {Num(-1), Num(0), Frac(1, 5), Frac(999, 1000), Num(1)}

HarmonicCounts == {0, 1, 12}

FormantCounts == {1, 4}

Sensitivities == {Frac(11, 10), Frac(9, 5)}

\* The buffer startRendering() resolves to: it has the shape the
\* OfflineAudioContext was made with, and samples the host computes from
\* the node graph.
Rendered(numberOfChannels, length, sampleRate, graph) ==
    [id |-> "rendered", numberOfChannels |-> numberOfChannels, length |-> length,
     sampleRate |-> sampleRate, graph |-> graph]

\* Every target channel multiplied by channel 0 of the envelope.
EnvelopeChannelOf_First(channel, envelopeBuffer) == 0

\* channel % envelopeBuffer.numberOfChannels
EnvelopeChannelOf(channel, envelopeBuffer) == channel % envelopeBuffer.numberOfChannels

applyEnvelopeToBuffer(envelopeBuffer, target) ==
    [createBuffer(target.numberOfChannels, target.length, target.sampleRate) EXCEPT
        !.channels = [c \in 1 .. target.numberOfChannels |->
            Only({ [i \in 0 .. target.length - 1 |->
                        IF i < IMin(target.length, envelopeBuffer.length)
                        THEN NMul(targetData[i], envelopeData[i]) ELSE Zero] :
                   targetData \in {getChannelData(target, c - 1)},
                   envelopeData \in {getChannelData(envelopeBuffer, EnvelopeChannelOf(c - 1, envelopeBuffer))} })]]

\* A gate that follows the envelope instead of closing or opening.
GateData_Soft(envelopeData, length, gateThreshold) == envelopeData

\* gateData: 1 where the envelope is above the threshold, 0 elsewhere.
GateData(envelopeData, length, gateThreshold) ==
    [i \in 0 .. length - 1 |-> IF NGt(envelopeData[i], gateThreshold) THEN One ELSE Zero]

applyRhythmicGating(source, target, gateThreshold) ==
    Only({ applyEnvelopeToBuffer(
               [createBuffer(sourceEnvelope.numberOfChannels, sourceEnvelope.length, sourceEnvelope.sampleRate)
                   EXCEPT !.channels = [c \in 1 .. sourceEnvelope.numberOfChannels |->
                       GateData(getChannelData(sourceEnvelope, c - 1), sourceEnvelope.length, gateThreshold)]],
               target) :
           sourceEnvelope \in {getAmplitudeEnvelope(source, GateSmoothing)} })

\* real and imag of the peak detectors: the first fftSize frames of
\* channel 0 padded with zeros, and zeros.
PeakInput(data, length, fftSize) ==
    [re |-> [i \in 0 .. fftSize - 1 |-> IF i < length THEN data[i] ELSE Zero],
     im |-> [i \in 0 .. fftSize - 1 |-> Zero]]

\* real[i]**2 + imag[i]**2: the square of the magnitude the detectors
\* compare, which orders the bins as the magnitude does.
MagSq(st, i) == Only({ NAdd(NMul(re, re), NMul(im, im)) : re \in {st.re[i]}, im \in {st.im[i]} })

\* magnitudes of detectHarmonics: the bins 1 .. fftSize/2 - 1.
Magnitudes(st, fftSize, sampleRate) ==
    [k \in 1 .. (fftSize \div 2) - 1 |-> [freq |-> Frac(k * sampleRate, fftSize), mag |-> MagSq(st, k)]]

InBand(freq) == NLeq(Num(MinFreq), freq) /\ NLeq(freq, Num(MaxFreq))

\* A bin that is no smaller than its neighbours taken for a peak.
IsPeak_OrEqual(mag, before, after) == ~NLt(mag, before) /\ ~NLt(mag, after)

\* magnitudes[i].mag > magnitudes[i-1].mag && magnitudes[i].mag > magnitudes[i+1].mag
IsPeak(mag, before, after) == NGt(mag, before) /\ NGt(mag, after)

\* The peak loop from index i on (i counts from 0 as the source does).
RECURSIVE Peaks(_, _)
Peaks(magnitudes, i) ==
    IF i >= Len(magnitudes) - 1 THEN <<>>
    ELSE IF IsPeak(magnitudes[i + 1].mag, magnitudes[i].mag, magnitudes[i + 2].mag)
         THEN <<magnitudes[i + 1]>> \o Peaks(magnitudes, i + 1)
         ELSE Peaks(magnitudes, i + 1)

RECURSIVE InsertByMag(_, _)
InsertByMag(sorted, p) ==
    IF sorted = <<>> THEN <<p>>
    ELSE IF NLt(Head(sorted).mag, p.mag) THEN <<p>> \o sorted
    ELSE <<Head(sorted)>> \o InsertByMag(Tail(sorted), p)

\* sort((a, b) => b.mag - a.mag): descending and stable.
RECURSIVE SortByMag(_, _, _)
SortByMag(peaks, k, sorted) ==
    IF k > Len(peaks) THEN sorted ELSE SortByMag(peaks, k + 1, InsertByMag(sorted, peaks[k]))

\* slice(0, end)
Slice(seq, end) ==
    IF end >= 0 THEN SubSeq(seq, 1, IMin(end, Len(seq))) ELSE SubSeq(seq, 1, IMax(Len(seq) + end, 0))

TopFrequencies(magnitudes, count) ==
    Only({ [k \in 1 .. Len(top) |-> top[k].freq] :
           top \in {Slice(SortByMag(Peaks(magnitudes, 1), 1, <<>>), count)} })

Spectrum(buffer) ==
    fft(PeakFFTSize, PeakInput(getChannelData(buffer, 0), buffer.length, PeakFFTSize), FALSE)

detectHarmonics(buffer, numHarmonics, sampleRate) ==
    Only({ Only({ TopFrequencies(magnitudes, numHarmonics) :
                  magnitudes \in {Magnitudes(st, PeakFFTSize, sampleRate)} }) :
           st \in {Spectrum(buffer)} })

\* A list of magnitudes in which every bin is in the band.
magnitudesOfFormants_Unfiltered(st, fftSize, sampleRate) == Magnitudes(st, fftSize, sampleRate)

\* magnitudes of detectFormants: the bins 1 .. fftSize/2 - 1 whose
\* frequency is in the band.
magnitudesOfFormants(st, fftSize, sampleRate) ==
    SelectSeq(Magnitudes(st, fftSize, sampleRate), LAMBDA m : InBand(m.freq))

detectFormants(buffer, numFormants, sampleRate) ==
    Only({ Only({ TopFrequencies(magnitudes, numFormants) :
                  magnitudes \in {magnitudesOfFormants(st, PeakFFTSize, sampleRate)} }) :
           st \in {Spectrum(buffer)} })

\* The frequencies that get a peaking filter: freq > 0 && freq < sampleRate / 2.
Filtered(freqs, sampleRate) ==
    SelectSeq(freqs, LAMBDA freq : NSign(freq) > 0 /\ NLt(freq, Frac(sampleRate, 2)))

applyHarmonicImprinting(source, target, numHarmonics) ==
    Only({ IF Len(harmonics) = 0 THEN target
           ELSE Rendered(target.numberOfChannels, target.length, target.sampleRate,
                         [op |-> "harmonicImprinting", peaking |-> Filtered(harmonics, target.sampleRate)]) :
           harmonics \in {detectHarmonics(source, numHarmonics, target.sampleRate)} })

applyFormantShifting(source, target, numFormants) ==
    Only({ IF Len(formants) = 0 THEN target
           ELSE Rendered(target.numberOfChannels, target.length, target.sampleRate,
                         [op |-> "formantShifting", peaking |-> Filtered(formants, target.sampleRate)]) :
           formants \in {detectFormants(source, numFormants, target.sampleRate)} })

\* The frames of the first numSegments segments of the source, from
\* segment i on: totalDuration times the source's sample rate.
RECURSIVE SegmentFrames(_, _, _)
SegmentFrames(sourceTransients, numSegments, i) ==
    IF i >= numSegments THEN 0
    ELSE (sourceTransients[i + 2] - sourceTransients[i + 1]) + SegmentFrames(sourceTransients, numSegments, i + 1)

\* Math.ceil(a / b) for a >= 0 and b > 0.
CeilDiv(a, b) == (a + b - 1) \div b

\* The seconds from transient i to transient i + 1 (i counts from 0).
SegmentDuration(transients, i, sampleRate) == Frac(transients[i + 2] - transients[i + 1], sampleRate)

\* No segment skipped.
TooShort_Never(targetDuration, sourceDuration) == FALSE

\* targetDuration < 0.01 || sourceDuration < 0.01
TooShort(targetDuration, sourceDuration) ==
    NLt(targetDuration, Frac(1, 100)) \/ NLt(sourceDuration, Frac(1, 100))

\* The second loop from segment i on: the buffer sources started, each
\* with the arguments of its start(when, offset, duration) and its
\* playbackRate; w carries the transients and sample rates.
RECURSIVE SegmentPlayers(_, _, _)
SegmentPlayers(w, i, currentTime) ==
    IF i >= w.numSegments THEN <<>>
    ELSE LET sourceDuration == SegmentDuration(w.sourceTransients, i, w.sourceRate)
             targetDuration == SegmentDuration(w.targetTransients, i, w.targetRate)
         IN  IF TooShort(targetDuration, sourceDuration)
             THEN SegmentPlayers(w, i + 1, currentTime)
             ELSE << [segment |-> i, when |-> currentTime,
                      offset |-> Frac(w.targetTransients[i + 1], w.targetRate),
                      duration |-> targetDuration,
                      playbackRate |-> NDiv(targetDuration, sourceDuration)] >>
                  \o SegmentPlayers(w, i + 1, NAdd(currentTime, sourceDuration))

applyTimeScaleWarping(source, target, transientSensitivity) ==
    Only({ IF numSegments <= 0 THEN target
           ELSE Rendered(target.numberOfChannels,
                         CeilDiv(SegmentFrames(sourceTransients, numSegments, 0) * target.sampleRate,
                                 source.sampleRate),
                         target.sampleRate,
                         [op |-> "timeScaleWarping", numSegments |-> numSegments,
                          players |-> SegmentPlayers([sourceTransients |-> sourceTransients,
                                                      targetTransients |-> targetTransients,
                                                      sourceRate |-> source.sampleRate,
                                                      targetRate |-> target.sampleRate,
                                                      numSegments |-> numSegments], 0, Zero)]) :
           sourceTransients \in {detectTransients(source, transientSensitivity, MinSeparationMs)},
           targetTransients \in {detectTransients(target, transientSensitivity, MinSeparationMs)},
           numSegments \in {IMin(Len(detectTransients(source, transientSensitivity, MinSeparationMs)),
                                 Len(detectTransients(target, transientSensitivity, MinSeparationMs))) - 1} })

\* No list of transients counted as too short.
FewTransients_Never(sourceTransients) == Len(sourceTransients) < 1

\* sourceTransients.length <= 1
FewTransients(sourceTransients) == Len(sourceTransients) <= 1

applyInterferenceEchoes(source, target) ==
    Only({ IF FewTransients(sourceTransients) THEN target
           ELSE Rendered(target.numberOfChannels, target.length + target.sampleRate * EchoTail,
                         target.sampleRate, [op |-> "interferenceEchoes", triggers |-> sourceTransients]) :
           sourceTransients \in {detectTransients(source, EchoSensitivity, MinSeparationMs)} })

\* The smoothing getAmplitudeEnvelope defaults to.
DefaultSmoothing == Frac(199, 200)

applyAmplitudeMapping(source, target) ==
    applyEnvelopeToBuffer(getAmplitudeEnvelope(source, DefaultSmoothing), target)

InitOps ==
    /\ fftCache = {}
    /\ fftCall = NoCall
    /\ applied = <<>>
    /\ arr = NoArrays
    /\ arrIn = NoArrays
    /\ featBuf = NoBuffer
    /\ featCall = NoFeatCall
    /\ sourceBuffer \in Buffers("source", {1, 2}, MaxOpSamples, SourceSamples, SourceRates)
    /\ targetBuffer \in Buffers("target", {1, 2}, MaxOpSamples, TargetSamples, TargetRates)
    /\ opCall = NoOpCall
    /\ AppConstructed

\* The getFFT(fftSize) call of a peak detector.
PeakFFT ==
    /\ fftCache' = getFFT(fftCache, PeakFFTSize).cache
    /\ fftCall' = [size |-> PeakFFTSize, outcome |-> getFFT(fftCache, PeakFFTSize).outcome]
    /\ UNCHANGED <<arr, arrIn, applied>>

ApplyRhythmicGating(gateThreshold) ==
    /\ opCall = NoOpCall
    /\ opCall' = [op |-> "applyRhythmicGating", gateThreshold |-> gateThreshold,
                  result |-> applyRhythmicGating(sourceBuffer, targetBuffer, gateThreshold)]
    /\ UNCHANGED <<sourceBuffer, targetBuffer, fftVars, featVars, svcVars, appVars, callVars>>

ApplyHarmonicImprinting(numHarmonics) ==
    /\ opCall = NoOpCall
    /\ opCall' = [op |-> "applyHarmonicImprinting", numHarmonics |-> numHarmonics,
                  result |-> applyHarmonicImprinting(sourceBuffer, targetBuffer, numHarmonics)]
    /\ PeakFFT
    /\ UNCHANGED <<sourceBuffer, targetBuffer, featVars, svcVars, appVars, callVars>>

ApplyFormantShifting(numFormants) ==
    /\ opCall = NoOpCall
    /\ opCall' = [op |-> "applyFormantShifting", numFormants |-> numFormants,
                  result |-> applyFormantShifting(sourceBuffer, targetBuffer, numFormants)]
    /\ PeakFFT
    /\ UNCHANGED <<sourceBuffer, targetBuffer, featVars, svcVars, appVars, callVars>>

ApplyTimeScaleWarping(transientSensitivity) ==
    /\ opCall = NoOpCall
    /\ opCall' = [op |-> "applyTimeScaleWarping", transientSensitivity |-> transientSensitivity,
                  sourceTransients |-> detectTransients(sourceBuffer, transientSensitivity, MinSeparationMs),
                  targetTransients |-> detectTransients(targetBuffer, transientSensitivity, MinSeparationMs),
                  result |-> applyTimeScaleWarping(sourceBuffer, targetBuffer, transientSensitivity)]
    /\ UNCHANGED <<sourceBuffer, targetBuffer, fftVars, featVars, svcVars, appVars, callVars>>

ApplyInterferenceEchoes ==
    /\ opCall = NoOpCall
    /\ opCall' = [op |-> "applyInterferenceEchoes",
                  result |-> applyInterferenceEchoes(sourceBuffer, targetBuffer)]
    /\ UNCHANGED <<sourceBuffer, targetBuffer, fftVars, featVars, svcVars, appVars, callVars>>

ApplyAmplitudeMapping ==
    /\ opCall = NoOpCall
    /\ opCall' = [op |-> "applyAmplitudeMapping",
                  result |-> applyAmplitudeMapping(sourceBuffer, targetBuffer)]
    /\ UNCHANGED <<sourceBuffer, targetBuffer, fftVars, featVars, svcVars, appVars, callVars>>

NextOps ==
    \/ ApplyAmplitudeMapping
    \/ \E gateThreshold \in GateThresholds : ApplyRhythmicGating(gateThreshold)
    \/ \E numHarmonics \in HarmonicCounts : ApplyHarmonicImprinting(numHarmonics)
    \/ \E numFormants \in FormantCounts : ApplyFormantShifting(numFormants)
    \/ \E transientSensitivity \in Sensitivities : ApplyTimeScaleWarping(transientSensitivity)
    \/ ApplyInterferenceEchoes

SpecOps == InitOps /\ [][NextOps]_vars

\* ------------------------------------------------------------------------
\* The morph of two operators and the dispatcher handleFileTransform
\* ------------------------------------------------------------------------
\* A behaviour starts from an App with its two files uploaded (or one
\* missing) and a selection made, and runs handleFileTransform once.

\* fftSize of applyFourierMasking: 2048 in the source, 8 here.
FourierFFTSize == 8

\* hopSize of applyFourierMasking.
HopSize == FourierFFTSize \div 4

\* The most samples (frames times channels) of an uploaded buffer.
MaxFileSamples == 2

FileSourceSamples == {Num(-1), Num(1)}

FileTargetSamples == {Frac(-1, 2)}

MorphPositions == {Zero, Frac(1, 2), One}

\* A buffer a function fills sample by sample with values the model does
\* not compute: its shape and how it was made.
Computed(numberOfChannels, length, sampleRate, graph) ==
    [id |-> "new", numberOfChannels |-> numberOfChannels, length |-> length,
     sampleRate |-> sampleRate, graph |-> graph]

Return(buffer) == [outcome |-> "return", buffer |-> buffer]

Throw(message) == [outcome |-> "throw", message |-> message]

applySpectralShaping(source, target, spectralMix) ==
    Rendered(target.numberOfChannels, target.length, target.sampleRate,
             [op |-> "spectralShaping", wetGain |-> spectralMix, dryGain |-> NSub(One, spectralMix)])

\* threshold of trimSilence.
TrimThreshold == Frac(1, 200)

\* A sample taken for sound when it is above the threshold, its sign kept.
IsSound_Signed(sample) == NGt(sample, TrimThreshold)

\* Math.abs(data[i]) > threshold
IsSound(sample) == NGt(NAbs(sample), TrimThreshold)

\* firstSample of trimSilence from frame i on: the first frame of channel 0
\* that is sound, and 0 when the loop ends without one.
RECURSIVE FirstSample(_, _, _)
FirstSample(data, length, i) ==
    IF i >= length THEN 0
    ELSE IF IsSound(data[i]) THEN i
    ELSE FirstSample(data, length, i + 1)

trimSilence(buffer) ==
    Only({ IF firstSample = 0 THEN buffer
           ELSE [createBuffer(buffer.numberOfChannels, buffer.length - firstSample, buffer.sampleRate) EXCEPT
                    !.channels = [c \in 1 .. buffer.numberOfChannels |->
                        [i \in 0 .. buffer.length - firstSample - 1 |->
                            getChannelData(buffer, c - 1)[i + firstSample]]]] :
           firstSample \in {FirstSample(getChannelData(buffer, 0), buffer.length, 0)} })

\* Samples the host can render: a sample at the threshold, which is not
\* above it, and a loud negative one.
RenderSamples == {TrimThreshold, Num(-1)}

\* The buffers startRendering() can resolve to in applyConvolution: the
\* host computes the convolution, so the samples are any.
ConvolutionRenders(source, target) ==
    { [id |-> "rendered", numberOfChannels |-> target.numberOfChannels,
       length |-> source.length + target.length - 1, sampleRate |-> target.sampleRate,
       channels |-> channels, graph |-> [op |-> "convolution"]] :
      channels \in [1 .. target.numberOfChannels -> [0 .. source.length + target.length - 2 -> RenderSamples]] }

\* The buffers applyConvolution can return.
applyConvolution(source, target) ==
    { trimSilence(renderedBuffer) : renderedBuffer \in ConvolutionRenders(source, target) }

RECURSIVE InsertAscending(_, _)
InsertAscending(sorted, x) ==
    IF sorted = <<>> THEN <<x>>
    ELSE IF NLt(x, Head(sorted)) THEN <<x>> \o sorted
    ELSE <<Head(sorted)>> \o InsertAscending(Tail(sorted), x)

\* new Float32Array(targetData).sort(), indexed from 1.
RECURSIVE SortAscending(_, _, _)
SortAscending(data, length, i) ==
    IF i >= length THEN <<>> ELSE InsertAscending(SortAscending(data, length, i + 1), data[i])

\* Math.floor of a rational number.
Floor(x) == x.v[1] \div x.d

\* Math.round of a rational number: the nearest integer, a half rounded up.
Round(x) == Floor(NAdd(x, Frac(1, 2)))

\* What a Float32Array holds after undefined is stored into it.
NaN == [v |-> <<0, 0, 0, 0>>, d |-> 0]

\* array[index] of an array indexed from 1 here: undefined outside it,
\* which a Float32Array stores as NaN.
At(array, index) == IF index + 1 \in DOMAIN array THEN array[index + 1] ELSE NaN

\* An index that is rounded and not clamped.
ClampedIndex_Unclamped(sourceSample, sortedLength, surfaceJitter, random) ==
    Round(NAdd(Num(Floor(NMul(NDiv(NAdd(sourceSample, One), Num(2)), Num(sortedLength - 1)))),
               NMul(NSub(random, Frac(1, 2)), NMul(NMul(surfaceJitter, Num(sortedLength)), Frac(1, 20)))))

\* clampedIndex for a source sample, random being what Math.random() returns.
ClampedIndex(sourceSample, sortedLength, surfaceJitter, random) ==
    LET jitterAmount == NMul(NMul(surfaceJitter, Num(sortedLength)), Frac(1, 20))
        normalizedIndex == NDiv(NAdd(sourceSample, One), Num(2))
        baseTargetIndex == Floor(NMul(normalizedIndex, Num(sortedLength - 1)))
        randomOffset == NMul(NSub(random, Frac(1, 2)), jitterAmount)
        finalIndex == Round(NAdd(Num(baseTargetIndex), randomOffset))
    IN  IMax(0, IMin(sortedLength - 1, finalIndex))

\* The clampedIndex of every frame of the source; random[i] is the value
\* Math.random() returns in iteration i.
SurfaceIndices(source, target, surfaceJitter, random) ==
    [i \in 0 .. source.length - 1 |->
        ClampedIndex(getChannelData(source, 0)[i], target.length, surfaceJitter, random[i])]

applySurfaceTranslationMapping(source, target, surfaceJitter, random) ==
    Only({ [createBuffer(1, source.length, source.sampleRate) EXCEPT
               !.channels = << [i \in 0 .. source.length - 1 |-> At(sortedTargetData, indices[i])] >>] :
           sortedTargetData \in {SortAscending(getChannelData(target, 0), target.length, 0)},
           indices \in {SurfaceIndices(source, target, surfaceJitter, random)} })

\* With surfaceJitter = 0 the random numbers drop out of the index.
NoRandom(source) == [i \in 0 .. source.length - 1 |-> Zero]

\* Frames started at every hop, whole or not.
FrameStarts_Partial(i, length) == {k \in i .. length - 1 : (k - i) % HopSize = 0}

\* The values i takes in for (let i = 0; (i + fftSize) <= length; i += hopSize).
RECURSIVE FrameStarts(_, _)
FrameStarts(i, length) ==
    IF i + FourierFFTSize <= length THEN {i} \cup FrameStarts(i + HopSize, length) ELSE {}

\* The indices i + j of the inner loops, j < fftSize: sourceData and
\* targetData are read there and resultData is added to there.
FrameIndices(starts) == UNION { {i + j : j \in 0 .. FourierFFTSize - 1} : i \in starts }

\* With no frame processed the result stays as createBuffer made it; the
\* samples written by the overlap-add are not computed here.
applyFourierMasking(source, target) ==
    Only({ IF starts = {} THEN createBuffer(1, length, source.sampleRate)
           ELSE Computed(1, length, source.sampleRate,
                         [op |-> "fourierMasking", reads |-> FrameIndices(starts), writes |-> FrameIndices(starts)]) :
           length \in {IMin(source.length, target.length)},
           starts \in {FrameStarts(0, IMin(source.length, target.length))} })

applyDynamicRingModulation(source, target) ==
    Computed(target.numberOfChannels, target.length, target.sampleRate, [op |-> "ringModulation"])

\* What the case of an operator's type returns, in the switch of run and
\* in the switch of handleFileTransform: the buffers it can return.
Operator(type, source, target, params) ==
    CASE type = AMPLITUDE -> {applyAmplitudeMapping(source, target)}
      [] type = RHYTHMIC -> {applyRhythmicGating(source, target, params.gateThreshold)}
      [] type = SPECTRAL -> {applySpectralShaping(source, target, params.spectralMix)}
      [] type = CONVOLUTION -> applyConvolution(source, target)
      [] type = TIME_WARP -> {applyTimeScaleWarping(source, target, params.transientSensitivity)}
      [] type = SURFACE_TRANSLATE ->
            {applySurfaceTranslationMapping(source, target, params.surfaceJitter, NoRandom(source))}
      [] type = FOURIER_MASKING -> {applyFourierMasking(source, target)}
      [] type = HARMONIC_IMPRINT -> {applyHarmonicImprinting(source, target, params.numHarmonics)}
      [] type = INTERFERENCE_ECHOES -> {applyInterferenceEchoes(source, target)}
      [] type = FORMANT_SHIFTING -> {applyFormantShifting(source, target, params.numFormants)}
      [] type = DYNAMIC_RING_MOD -> {applyDynamicRingModulation(source, target)}

\* A type that is no operator run as Amplitude Mapping.
run_Fallback(type, source, target, params) ==
    { Return(buffer) :
      buffer \in Operator(IF type \in morphableTransformations THEN type ELSE AMPLITUDE, source, target, params) }

\* run(type) of applyTransformationMorph: how its promise can settle.
run(type, source, target, params) ==
    IF type \in morphableTransformations
    THEN { Return(buffer) : buffer \in Operator(type, source, target, params) }
    ELSE {Throw("Invalid transformation type for morphing")}

\* The two gains exchanged.
gainA_Swapped(morphPosition) == morphPosition

gainA(morphPosition) == NSub(One, morphPosition)

gainB(morphPosition) == morphPosition

\* The graph rendered after both results are there: each result through
\* its gain into the destination of a context of the longer length, the
\* smaller channel count and the sample rate of result A.
CrossFade(resultA, resultB, morphPosition) ==
    Rendered(IMin(resultA.numberOfChannels, resultB.numberOfChannels),
             IMax(resultA.length, resultB.length),
             resultA.sampleRate,
             [op |-> "morph", resultA |-> resultA, gainA |-> gainA(morphPosition),
              resultB |-> resultB, gainB |-> gainB(morphPosition)])

\* Promise.all rejects with the first rejection; else the cross-fade.
applyTransformationMorph(source, target, transformA, transformB, params) ==
    { IF a.outcome = "throw" THEN a
      ELSE IF b.outcome = "throw" THEN b
      ELSE Return(CrossFade(a.buffer, b.buffer, params.morphPosition)) :
      a \in run(transformA, source, target, params), b \in run(transformB, source, target, params) }

\* The switch of handleFileTransform: how the awaited call can end.
Dispatch(type, source, target, transformA, transformB, params) ==
    IF type = TRANSFORMATION_MORPH THEN applyTransformationMorph(source, target, transformA, transformB, params)
    ELSE IF type \in morphableTransformations THEN { Return(buffer) : buffer \in Operator(type, source, target, params) }
    ELSE {Throw("Unknown transformation type")}

\* The sizes an operator asks getFFT for.
FFTSizes(type) ==
    IF type \in {HARMONIC_IMPRINT, FORMANT_SHIFTING} THEN {PeakFFTSize}
    ELSE IF type = FOURIER_MASKING THEN {FourierFFTSize}
    ELSE {}

\* The sizes asked for in a dispatch, the last one last.
DispatchFFTSizes(type, transformA, transformB) ==
    IF type = TRANSFORMATION_MORPH
    THEN [cached |-> FFTSizes(transformA) \cup FFTSizes(transformB),
          last |-> IF FFTSizes(transformB) # {} THEN FFTSizes(transformB) ELSE FFTSizes(transformA)]
    ELSE [cached |-> FFTSizes(type), last |-> FFTSizes(type)]

InitFile ==
    /\ fftCache = {}
    /\ fftCall = NoCall
    /\ applied = <<>>
    /\ arr = NoArrays
    /\ arrIn = NoArrays
    /\ featBuf = NoBuffer
    /\ featCall = NoFeatCall
    /\ opCall = NoOpCall
    /\ sourceBuffer \in Buffers("source", {1}, MaxFileSamples, FileSourceSamples, SourceRates) \cup {NoBuffer}
    /\ targetBuffer \in Buffers("target", {1, 2}, MaxFileSamples, FileTargetSamples, TargetRates) \cup {NoBuffer}
    /\ \/ /\ transformation \in (TransformationType \ {TRANSFORMATION_MORPH}) \cup {UnknownType}
          /\ morphA = AMPLITUDE
          /\ morphB = SPECTRAL
          /\ transformationParams = getDefaultParams
       \/ /\ sourceBuffer # NoBuffer /\ targetBuffer # NoBuffer
          /\ transformation = TRANSFORMATION_MORPH
          /\ morphA \in TransformationType \cup {UnknownType}
          /\ morphB \in TransformationType \cup {UnknownType}
          /\ \E morphPosition \in MorphPositions :
                transformationParams = [getDefaultParams EXCEPT !.morphPosition = morphPosition]
    /\ processedAudio = Null
    /\ error = Null
    /\ isLoading = FALSE
    /\ fileCall = NoFileCall
    /\ sourceType = FILE
    /\ isLive = FALSE
    /\ micStream = Null
    /\ NoCalls

\* handleFileTransform without both files: the message and nothing else.
HandleFileTransformRefused ==
    /\ fileCall = NoFileCall
    /\ sourceBuffer = NoBuffer \/ targetBuffer = NoBuffer
    /\ error' = "Please upload both a source and a target audio file."
    /\ fileCall' = [outcome |-> "refused"]
    /\ UNCHANGED <<transformation, morphA, morphB, transformationParams, processedAudio, isLoading>>
    /\ UNCHANGED <<sourceType, isLive, micStream>>
    /\ UNCHANGED <<fftVars, featVars, svcVars, opVars, callVars>>

\* The busy flag cleared at the end of the try block, not in finally.
isLoadingAfter_Try(end) == end.outcome = "throw"

\* isLoading once handleFileTransform is through: finally sets it to false
\* however the awaited call ended.
isLoadingAfter(end) == FALSE

\* handleFileTransform from the click to the end of its finally block.
HandleFileTransform ==
    /\ fileCall = NoFileCall
    /\ sourceBuffer # NoBuffer /\ targetBuffer # NoBuffer
    /\ \E end \in Dispatch(transformation, sourceBuffer, targetBuffer, morphA, morphB, transformationParams) :
          /\ IF end.outcome = "return"
             THEN /\ processedAudio' = [name |-> "transformed_target", buffer |-> end.buffer]
                  /\ error' = Null
             ELSE /\ processedAudio' = Null
                  /\ error' = end.message
          /\ fileCall' = [outcome |-> end.outcome, transformation |-> transformation]
          /\ isLoading' = isLoadingAfter(end)
    /\ LET sizes == DispatchFFTSizes(transformation, morphA, morphB)
       IN  /\ fftCache' = fftCache \cup sizes.cached
           /\ fftCall' = IF sizes.last = {} THEN fftCall
                         ELSE [size |-> Only(sizes.last), outcome |-> "return"]
    /\ UNCHANGED <<arr, arrIn, applied, featVars, svcVars, opVars, callVars>>
    /\ UNCHANGED <<transformation, morphA, morphB, transformationParams, sourceType, isLive, micStream>>

NextFile ==
    \/ HandleFileTransformRefused
    \/ HandleFileTransform

SpecFile == InitFile /\ [][NextFile]_vars

\* ------------------------------------------------------------------------
\* Surface Translation with jitter
\* ------------------------------------------------------------------------
\* A behaviour makes one applySurfaceTranslationMapping call; the numbers
\* Math.random() returns are inputs of the call.

\* The most samples (frames times channels) of a buffer of these behaviours.
MaxSurfaceSamples == 3

\* Amplitudes below, at and above the ends of [-1, 1].
SurfaceSourceSamples == {Num(-2), Num(-1), Num(0), Num(1), Frac(3, 2)}

SurfaceTargetSamples == {Frac(-1, 2), Num(0), Frac(1, 4)}

\* The slider goes from 0 to 1; the function takes any number.
SurfaceJitters == {Num(0), Num(1), Num(-40)}

\* Values of Math.random(), which lie in [0, 1).
Randoms == {Zero, Frac(999, 1000)}

InitSurface ==
    /\ fftCache = {}
    /\ fftCall = NoCall
    /\ applied = <<>>
    /\ arr = NoArrays
    /\ arrIn = NoArrays
    /\ featBuf = NoBuffer
    /\ featCall = NoFeatCall
    /\ sourceBuffer \in Buffers("source", {1, 2}, MaxSurfaceSamples, SurfaceSourceSamples, SourceRates)
    /\ targetBuffer \in Buffers("target", {1, 2}, MaxSurfaceSamples, SurfaceTargetSamples, SourceRates)
    /\ opCall = NoOpCall
    /\ AppConstructed

ApplySurfaceTranslationMapping(surfaceJitter, random) ==
    /\ opCall = NoOpCall
    /\ opCall' = [op |-> "applySurfaceTranslationMapping", surfaceJitter |-> surfaceJitter,
                  indices |-> SurfaceIndices(sourceBuffer, targetBuffer, surfaceJitter, random),
                  result |-> applySurfaceTranslationMapping(sourceBuffer, targetBuffer, surfaceJitter, random)]
    /\ UNCHANGED <<sourceBuffer, targetBuffer, fftVars, featVars, svcVars, appVars, callVars>>

NextSurface ==
    \E surfaceJitter \in SurfaceJitters :
        \E random \in [0 .. sourceBuffer.length - 1 -> Randoms] :
            ApplySurfaceTranslationMapping(surfaceJitter, random)

SpecSurface == InitSurface /\ [][NextSurface]_vars

\* ------------------------------------------------------------------------
\* Fourier Masking
\* ------------------------------------------------------------------------
\* A behaviour makes one applyFourierMasking call.  The frames it processes
\* depend on the lengths of the buffers only, so every sample is 1.

\* The most frames of a buffer of these behaviours.
MaxFourierFrames == 11

InitFourier ==
    /\ fftCache = {}
    /\ fftCall = NoCall
    /\ applied = <<>>
    /\ arr = NoArrays
    /\ arrIn = NoArrays
    /\ featBuf = NoBuffer
    /\ featCall = NoFeatCall
    /\ sourceBuffer \in Buffers("source", {1}, MaxFourierFrames, {One}, SourceRates)
    /\ targetBuffer \in Buffers("target", {1}, MaxFourierFrames, {One}, TargetRates)
    /\ opCall = NoOpCall
    /\ AppConstructed

ApplyFourierMasking ==
    /\ opCall = NoOpCall
    /\ LET result == applyFourierMasking(sourceBuffer, targetBuffer)
       IN  opCall' = [op |-> "applyFourierMasking", result |-> result,
                      reads |-> IF result.id = "new" /\ "graph" \in DOMAIN result THEN result.graph.reads ELSE {},
                      writes |-> IF result.id = "new" /\ "graph" \in DOMAIN result THEN result.graph.writes ELSE {}]
    /\ fftCache' = getFFT(fftCache, FourierFFTSize).cache
    /\ fftCall' = [size |-> FourierFFTSize, outcome |-> getFFT(fftCache, FourierFFTSize).outcome]
    /\ UNCHANGED <<arr, arrIn, applied, sourceBuffer, targetBuffer, featVars, svcVars, appVars, callVars>>

NextFourier == ApplyFourierMasking

SpecFourier == InitFourier /\ [][NextFourier]_vars

\* ------------------------------------------------------------------------
\* Convolution Morphing
\* ------------------------------------------------------------------------
\* A behaviour makes one applyConvolution call.  The host's render depends
\* on the buffers' samples in a way the model leaves open, so every input
\* sample is 1.

\* The most samples (frames times channels) of a buffer of these behaviours.
MaxConvSamples == 3

InitConv ==
    /\ fftCache = {}
    /\ fftCall = NoCall
    /\ applied = <<>>
    /\ arr = NoArrays
    /\ arrIn = NoArrays
    /\ featBuf = NoBuffer
    /\ featCall = NoFeatCall
    /\ sourceBuffer \in Buffers("source", {1}, MaxConvSamples, {One}, SourceRates)
    /\ targetBuffer \in Buffers("target", {1, 2}, MaxConvSamples, {One}, TargetRates)
    /\ opCall = NoOpCall
    /\ AppConstructed

ApplyConvolution ==
    /\ opCall = NoOpCall
    /\ \E renderedBuffer \in ConvolutionRenders(sourceBuffer, targetBuffer) :
          opCall' = [op |-> "applyConvolution", renderedBuffer |-> renderedBuffer,
                     result |-> trimSilence(renderedBuffer)]
    /\ UNCHANGED <<sourceBuffer, targetBuffer, fftVars, featVars, svcVars, appVars, callVars>>

NextConv == ApplyConvolution

SpecConv == InitConv /\ [][NextConv]_vars

\* ------------------------------------------------------------------------
\* Time Scale Warping
\* ------------------------------------------------------------------------
\* A behaviour makes one applyTimeScaleWarping call on two mono buffers
\* that are silent up to a frame and loud from it on: the loud part starts
\* a transient, and the last frame ends a segment that can be short.

\* The most frames of a buffer of these behaviours.
MaxWarpFrames == 9

\* At 20 Hz no segment is shorter than 10 ms; at 110 Hz a segment of one
\* frame is, and minSeparation is 5 frames.
WarpRates == {20, 110}

\* The buffer of length frames that is 0 before frame onset and 1 from it on.
OnsetBuffer(id, length, onset, sampleRate) ==
    Buffer(id, sampleRate, << [i \in 0 .. length - 1 |-> IF i < onset THEN Zero ELSE One] >>)

OnsetBuffers(id) ==
    { OnsetBuffer(id, length, onset, sampleRate) :
      length \in 1 .. MaxWarpFrames, onset \in 0 .. MaxWarpFrames, sampleRate \in WarpRates }

InitWarp ==
    /\ fftCache = {}
    /\ fftCall = NoCall
    /\ applied = <<>>
    /\ arr = NoArrays
    /\ arrIn = NoArrays
    /\ featBuf = NoBuffer
    /\ featCall = NoFeatCall
    /\ sourceBuffer \in OnsetBuffers("source")
    /\ targetBuffer \in OnsetBuffers("target")
    /\ opCall = NoOpCall
    /\ AppConstructed

NextWarp == \E transientSensitivity \in Sensitivities : ApplyTimeScaleWarping(transientSensitivity)

SpecWarp == InitWarp /\ [][NextWarp]_vars

\* ------------------------------------------------------------------------
\* The morph step by step
\* ------------------------------------------------------------------------
\* A behaviour makes one applyTransformationMorph call: the call starts both
\* run(type) promises, each settles on its own, Promise.all fulfils or
\* rejects, and after a fulfilment the cross-fade is rendered.

\* The most samples (frames times channels) of a buffer of these behaviours.
MaxMorphSamples == 2

\* A promise that has not settled.
Pending == [outcome |-> "pending"]

\* Promise.all fulfilled as soon as one promise is.
AllFulfilled_Either(a, b) == a.outcome = "return" \/ b.outcome = "return"

\* Promise.all fulfils when every promise has.
AllFulfilled(a, b) == a.outcome = "return" /\ b.outcome = "return"

\* Promise.all rejects when a promise has.
AnyRejected(a, b) == a.outcome = "throw" \/ b.outcome = "throw"

InitMorph ==
    /\ fftCache = {}
    /\ fftCall = NoCall
    /\ applied = <<>>
    /\ arr = NoArrays
    /\ arrIn = NoArrays
    /\ featBuf = NoBuffer
    /\ featCall = NoFeatCall
    /\ opCall = NoOpCall
    /\ sourceBuffer \in Buffers("source", {1}, MaxMorphSamples, {One}, SourceRates)
    /\ targetBuffer \in Buffers("target", {1, 2}, MaxMorphSamples, FileTargetSamples, SourceRates)
    /\ transformation = TRANSFORMATION_MORPH
    /\ morphA \in TransformationType \cup {UnknownType}
    /\ morphB \in TransformationType \cup {UnknownType}
    /\ transformationParams = getDefaultParams
    /\ processedAudio = Null
    /\ error = Null
    /\ isLoading = FALSE
    /\ fileCall = NoFileCall
    /\ sourceType = FILE
    /\ isLive = FALSE
    /\ micStream = Null
    /\ NoCalls

\* applyTransformationMorph up to its await: run(transformA) and
\* run(transformB) are called with the buffers and params of the call.
MorphCall ==
    /\ morphCall = NoMorphCall
    /\ morphCall' = [pc |-> "awaiting",
                     a |-> [type |-> morphA, source |-> sourceBuffer, target |-> targetBuffer,
                            params |-> transformationParams, end |-> Pending],
                     b |-> [type |-> morphB, source |-> sourceBuffer, target |-> targetBuffer,
                            params |-> transformationParams, end |-> Pending],
                     end |-> Pending]
    /\ UNCHANGED <<fftVars, featVars, svcVars, opVars, appVars, fftEntries, fftBuild, inFlight>>

\* The promise of one run(type) settles; the other one and Promise.all
\* play no part in it.
SettleRun(which) ==
    /\ morphCall.pc \in {"awaiting", "rejected"}
    /\ morphCall[which].end = Pending
    /\ \E end \in run(morphCall[which].type, morphCall[which].source, morphCall[which].target,
                       morphCall[which].params) :
          morphCall' = [morphCall EXCEPT ![which].end = end]
    /\ fftCache' = fftCache \cup FFTSizes(morphCall[which].type)
    /\ fftCall' = IF FFTSizes(morphCall[which].type) = {} THEN fftCall
                  ELSE [size |-> Only(FFTSizes(morphCall[which].type)), outcome |-> "return"]
    /\ UNCHANGED <<arr, arrIn, applied, featVars, svcVars, opVars, appVars, fftEntries, fftBuild, inFlight>>

\* The await resumes with both results and builds the cross-fade graph.
PromiseAllFulfilled ==
    /\ morphCall.pc = "awaiting"
    /\ AllFulfilled(morphCall.a.end, morphCall.b.end)
    /\ morphCall' = [morphCall EXCEPT !.pc = "rendering"]
    /\ UNCHANGED <<fftVars, featVars, svcVars, opVars, appVars, fftEntries, fftBuild, inFlight>>

\* The await throws what a rejected promise was rejected with: the call
\* ends there.
PromiseAllRejected ==
    /\ morphCall.pc = "awaiting"
    /\ AnyRejected(morphCall.a.end, morphCall.b.end)
    /\ \E which \in {"a", "b"} :
          /\ morphCall[which].end.outcome = "throw"
          /\ morphCall' = [morphCall EXCEPT !.pc = "rejected", !.end = morphCall[which].end]
    /\ UNCHANGED <<fftVars, featVars, svcVars, opVars, appVars, fftEntries, fftBuild, inFlight>>

\* context.startRendering() resolves and the call returns.
RenderCrossFade ==
    /\ morphCall.pc = "rendering"
    /\ morphCall' = [morphCall EXCEPT
                        !.pc = "returned",
                        !.end = Return(CrossFade(morphCall.a.end.buffer, morphCall.b.end.buffer,
                                                 morphCall.a.params.morphPosition))]
    /\ UNCHANGED <<fftVars, featVars, svcVars, opVars, appVars, fftEntries, fftBuild, inFlight>>

NextMorph ==
    \/ MorphCall
    \/ \E which \in {"a", "b"} : SettleRun(which)
    \/ PromiseAllFulfilled
    \/ PromiseAllRejected
    \/ RenderCrossFade

SpecMorph == InitMorph /\ [][NextMorph]_vars

\* ------------------------------------------------------------------------
\* The arrays the functions write
\* ------------------------------------------------------------------------
\* A behaviour makes one call of an operator or a feature extractor.  An
\* array is known by its origin: the buffer whose channel data it is, or
\* "scratch" for an array the call allocates.  A write into an array whose
\* origin is a buffer of the state overwrites that buffer.

\* The most frames of a buffer of these behaviours: one more than PeakFFTSize,
\* so that the peak detectors take a slice of the data.
MaxWriteFrames == 9

\* buffer.getChannelData(c): the buffer's own array.
ChannelView(buffer) == [origin |-> buffer.id]

\* new Float32Array(n)
FreshArray == [origin |-> "scratch"]

\* A copy that is the array itself.
CopyOf_Same(array) == array

\* new Float32Array(array) and array.slice(...): a new array with the
\* elements copied.
CopyOf(array) == [origin |-> "scratch"]

\* The channel data of a buffer the call creates.
NewBufferView == ChannelView(createBuffer(1, 1, 1))

\* The functions called by name besides the operators.
Extractors ==
    {"getAmplitudeEnvelope", "detectTransients", "detectHarmonics", "detectFormants",
     "applyEnvelopeToBuffer", "trimSilence"}

\* The arrays a function assigns elements of (x[i] = ..., x[i] += ...,
\* x[i] /= ..., x.fill, x.set, x.sort, copyToChannel into x, fft(x, y, ...)),
\* source and target being the buffers it is handed; an extractor is
\* handed source alone.
RECURSIVE ArraysWritten(_, _, _)
ArraysWritten(fn, source, target) ==
    CASE fn = "getAmplitudeEnvelope" -> {NewBufferView}
      [] fn = "detectTransients" -> {}
      [] fn \in {"detectHarmonics", "detectFormants"} ->
            LET data == ChannelView(source)
                chunk == IF source.length > PeakFFTSize THEN CopyOf(data) ELSE data
                real == FreshArray
                imag == FreshArray
            IN  {real, imag}
      [] fn = "applyEnvelopeToBuffer" -> {NewBufferView}
      [] fn = "trimSilence" -> {NewBufferView}
      [] fn = AMPLITUDE ->
            ArraysWritten("getAmplitudeEnvelope", source, target)
            \cup ArraysWritten("applyEnvelopeToBuffer", source, target)
      [] fn = RHYTHMIC ->
            ArraysWritten("getAmplitudeEnvelope", source, target)
            \cup {NewBufferView}
            \cup ArraysWritten("applyEnvelopeToBuffer", source, target)
      [] fn = SPECTRAL -> {}
      [] fn = CONVOLUTION -> ArraysWritten("trimSilence", source, target)
      [] fn = TIME_WARP ->
            ArraysWritten("detectTransients", source, target) \cup ArraysWritten("detectTransients", target, source)
      [] fn = SURFACE_TRANSLATE ->
            LET targetData == ChannelView(target)
                sortedTargetData == CopyOf(targetData)
                resultData == NewBufferView
            IN  {sortedTargetData, resultData}
      [] fn = FOURIER_MASKING ->
            LET resultData == NewBufferView
                fftWindow == FreshArray
                sourceReal == FreshArray
                targetReal == FreshArray
                sourceImag == FreshArray
                targetImag == FreshArray
                newReal == FreshArray
                newImag == FreshArray
            IN  {fftWindow, sourceReal, targetReal, sourceImag, targetImag, newReal, newImag, resultData}
      [] fn = HARMONIC_IMPRINT -> ArraysWritten("detectHarmonics", source, target)
      [] fn = INTERFERENCE_ECHOES -> ArraysWritten("detectTransients", source, target)
      [] fn = FORMANT_SHIFTING -> ArraysWritten("detectFormants", source, target)
      [] fn = DYNAMIC_RING_MOD ->
            ArraysWritten("getAmplitudeEnvelope", source, target) \cup {NewBufferView}
      [] OTHER -> {}

\* The buffer after writes into the given arrays: what is written is not
\* computed, the samples are other ones.
AfterWrites(buffer, arrays) ==
    IF \E array \in arrays : array.origin = buffer.id
    THEN [buffer EXCEPT !.channels = [c \in 1 .. buffer.numberOfChannels |->
                                         [i \in 0 .. buffer.length - 1 |-> NaN]]]
    ELSE buffer

InitWrites ==
    /\ fftCache = {}
    /\ fftCall = NoCall
    /\ applied = <<>>
    /\ arr = NoArrays
    /\ arrIn = NoArrays
    /\ featBuf = NoBuffer
    /\ featCall = NoFeatCall
    /\ sourceBuffer \in Buffers("source", {1}, MaxWriteFrames, {One}, SourceRates)
    /\ targetBuffer \in Buffers("target", {1}, MaxWriteFrames, {Zero}, SourceRates)
    /\ opCall = NoOpCall
    /\ AppConstructed

\* A call of an operator or, with type the morph, of two: transformA and
\* transformB; a type that is none fails before anything is written.
CallOperator(type, transformA, transformB) ==
    /\ opCall = NoOpCall
    /\ LET arrays == IF type = TRANSFORMATION_MORPH
                     THEN ArraysWritten(transformA, sourceBuffer, targetBuffer)
                          \cup ArraysWritten(transformB, sourceBuffer, targetBuffer)
                     ELSE ArraysWritten(type, sourceBuffer, targetBuffer)
       IN  /\ opCall' = [op |-> type, transformA |-> transformA, transformB |-> transformB,
                         arrays |-> arrays, sourceBefore |-> sourceBuffer, targetBefore |-> targetBuffer]
           /\ sourceBuffer' = AfterWrites(sourceBuffer, arrays)
           /\ targetBuffer' = AfterWrites(targetBuffer, arrays)
    /\ UNCHANGED <<fftVars, featVars, svcVars, appVars, callVars>>

\* A call of an extractor on one of the two buffers.
CallExtractor(fn, onTarget) ==
    /\ opCall = NoOpCall
    /\ LET arrays == IF onTarget THEN ArraysWritten(fn, targetBuffer, sourceBuffer)
                     ELSE ArraysWritten(fn, sourceBuffer, targetBuffer)
       IN  /\ opCall' = [op |-> fn, onTarget |-> onTarget,
                         arrays |-> arrays, sourceBefore |-> sourceBuffer, targetBefore |-> targetBuffer]
           /\ sourceBuffer' = AfterWrites(sourceBuffer, arrays)
           /\ targetBuffer' = AfterWrites(targetBuffer, arrays)
    /\ UNCHANGED <<fftVars, featVars, svcVars, appVars, callVars>>

NextWrites ==
    \/ \E type \in TransformationType \cup {UnknownType} :
          \E transformA, transformB \in
                IF type = TRANSFORMATION_MORPH THEN {SURFACE_TRANSLATE, HARMONIC_IMPRINT, CONVOLUTION, UnknownType}
                ELSE {AMPLITUDE} :
              CallOperator(type, transformA, transformB)
    \/ \E fn \in Extractors : \E onTarget \in BOOLEAN : CallExtractor(fn, onTarget)

SpecWrites == InitWrites /\ [][NextWrites]_vars

\* ------------------------------------------------------------------------
\* getFFT step by step
\* ------------------------------------------------------------------------
\* A behaviour is a series of getFFT calls by whatever callers there are.
\* getFFT has no await: a call runs to its end before the next one starts,
\* so the calls follow one another in any order and never overlap.  fftCache
\* holds the keys of the Map and fftEntries its values.

\* The most getFFT calls of a behaviour.
MaxGetFFTCalls == 3

\* The sizes asked for: the ones with exact tables and some invalid ones.
CacheSizeArgs == TableSizes \cup {-1, 0, 3, 6}

\* The calls made so far.
CallsMade == IF fftCall = NoCall THEN 0 ELSE fftCall.n

\* A table loop that leaves the last element out.
LoopDone_Early(i, size) == i >= size - 1

\* The end of for (let i = 0; i < size; i++).
LoopDone(i, size) == i >= size

\* new Uint32Array(size), new Float32Array(size): zeros.
ZeroInts(size) == [i \in 0 .. size - 1 |-> 0]

ZeroFloats(size) == [i \in 0 .. size - 1 |-> Zero]

InitCache ==
    /\ fftCache = {}
    /\ fftCall = NoCall
    /\ applied = <<>>
    /\ arr = NoArrays
    /\ arrIn = NoArrays
    /\ featBuf = NoBuffer
    /\ featCall = NoFeatCall
    /\ sourceBuffer = NoBuffer
    /\ targetBuffer = NoBuffer
    /\ opCall = NoOpCall
    /\ AppConstructed

\* getFFT(size) with an invalid size: it throws.
GetFFTThrows(size) ==
    /\ fftBuild = NoBuild
    /\ CallsMade < MaxGetFFTCalls
    /\ InvalidSize(size)
    /\ fftCall' = [size |-> size, outcome |-> "throw", n |-> CallsMade + 1]
    /\ UNCHANGED <<fftCache, fftEntries, fftBuild>>
    /\ UNCHANGED <<arr, arrIn, applied, featVars, svcVars, opVars, appVars, morphCall, inFlight>>

\* getFFT(size) with a size the Map has: it returns the Map's value.
GetFFTCached(size) ==
    /\ fftBuild = NoBuild
    /\ CallsMade < MaxGetFFTCalls
    /\ ~InvalidSize(size)
    /\ size \in fftCache
    /\ fftCall' = [size |-> size, outcome |-> "return", transform |-> fftEntries[size], n |-> CallsMade + 1]
    /\ UNCHANGED <<fftCache, fftEntries, fftBuild>>
    /\ UNCHANGED <<arr, arrIn, applied, featVars, svcVars, opVars, appVars, morphCall, inFlight>>

\* getFFT(size) with a new size, up to the first loop.
GetFFTBuilds(size) ==
    /\ fftBuild = NoBuild
    /\ CallsMade < MaxGetFFTCalls
    /\ ~InvalidSize(size)
    /\ size \notin fftCache
    /\ fftBuild' = [pc |-> "bitReverse", size |-> size, i |-> 0, serial |-> CallsMade + 1,
                    bitReverse |-> ZeroInts(size), sinTable |-> <<>>, cosTable |-> <<>>]
    /\ UNCHANGED <<fftCache, fftCall, fftEntries>>
    /\ UNCHANGED <<arr, arrIn, applied, featVars, svcVars, opVars, appVars, morphCall, inFlight>>

\* One round of the bitReverse loop, or its end and the two new tables.
FillBitReverse ==
    /\ fftBuild.pc = "bitReverse"
    /\ fftBuild' =
          IF LoopDone(fftBuild.i, fftBuild.size)
          THEN [fftBuild EXCEPT !.pc = "tables", !.i = 0,
                                !.sinTable = ZeroFloats(fftBuild.size), !.cosTable = ZeroFloats(fftBuild.size)]
          ELSE [fftBuild EXCEPT !.bitReverse[fftBuild.i] = ReverseBits(fftBuild.i, 0, Log2(fftBuild.size)),
                                !.i = fftBuild.i + 1]
    /\ UNCHANGED <<fftCache, fftCall, fftEntries>>
    /\ UNCHANGED <<arr, arrIn, applied, featVars, svcVars, opVars, appVars, morphCall, inFlight>>

\* One round of the sinTable and cosTable loop, or its end.
FillTables ==
    /\ fftBuild.pc = "tables"
    /\ fftBuild' =
          IF LoopDone(fftBuild.i, fftBuild.size)
          THEN [fftBuild EXCEPT !.pc = "set"]
          ELSE [fftBuild EXCEPT !.sinTable[fftBuild.i] = SinPi8(fftBuild.i * (8 \div fftBuild.size)),
                                !.cosTable[fftBuild.i] = CosPi8(fftBuild.i * (8 \div fftBuild.size)),
                                !.i = fftBuild.i + 1]
    /\ UNCHANGED <<fftCache, fftCall, fftEntries>>
    /\ UNCHANGED <<arr, arrIn, applied, featVars, svcVars, opVars, appVars, morphCall, inFlight>>

\* fftCache.set(size, fft); return fft: the closure over the three tables.
CacheSet ==
    /\ fftBuild.pc = "set"
    /\ LET transform == [serial |-> fftBuild.serial, bitReverse |-> fftBuild.bitReverse,
                         sinTable |-> fftBuild.sinTable, cosTable |-> fftBuild.cosTable]
       IN  /\ fftEntries' = [n \in fftCache \cup {fftBuild.size} |->
                                IF n = fftBuild.size THEN transform ELSE fftEntries[n]]
           /\ fftCall' = [size |-> fftBuild.size, outcome |-> "return", transform |-> transform,
                          n |-> CallsMade + 1]
    /\ fftCache' = fftCache \cup {fftBuild.size}
    /\ fftBuild' = NoBuild
    /\ UNCHANGED <<arr, arrIn, applied, featVars, svcVars, opVars, appVars, morphCall, inFlight>>

NextCache ==
    \/ \E size \in CacheSizeArgs : GetFFTThrows(size)
    \/ \E size \in CacheSizeArgs : GetFFTCached(size)
    \/ \E size \in CacheSizeArgs : GetFFTBuilds(size)
    \/ FillBitReverse
    \/ FillTables
    \/ CacheSet

SpecCache == InitCache /\ [][NextCache]_vars

\* ------------------------------------------------------------------------
\* The App component: its handlers one event at a time
\* ------------------------------------------------------------------------
\* A behaviour is a series of user events and of awaits that settle.  Each
\* handler runs to its first await, or to its end, before the next event
\* is taken; what an await resumes with is what the handler captured when
\* it was called.  sourceBuffer and targetBuffer stand for the buffers of
\* the App state sourceAudio and targetAudio, NoBuffer for null.  inFlight
\* holds the awaits that have not settled.  The events modelled are the two
\* uploads, the source type buttons, the transformation selector, the
\* microphone button and the main button; the parameter sliders and the
\* morph selectors stay as the App is constructed.

\* The handleFileTransform runs that may be awaiting their render at once.
MaxInFlight == 1

\* The files the user can load as the source and as the target.
AppSourceFiles == {Buffer("source", 8000, <<[i \in {0} |-> sample]>>) : sample \in {Num(-1), Num(1)}}

AppTargetFiles == {Buffer("target", 8000, <<[i \in {0} |-> sample]>>) : sample \in {Frac(-1, 2)}}

Stream == [id |-> "stream"]

liveOnlyDisabledTransformations ==
    {SPECTRAL, CONVOLUTION, TIME_WARP, SURFACE_TRANSLATE, FOURIER_MASKING, HARMONIC_IMPRINT,
     INTERFERENCE_ECHOES, FORMANT_SHIFTING, DYNAMIC_RING_MOD, TRANSFORMATION_MORPH}

\* The disabledItems the App hands to the TransformationSelector.
disabledItems == IF sourceType = LIVE THEN liveOnlyDisabledTransformations ELSE {}

\* A selector that disables nothing.
isDisabled_Never(id) == FALSE

\* isDisabled of an option of the TransformationSelector.
isDisabled(id) == id \in disabledItems

isCtaDisabled ==
    \/ sourceType = FILE /\ (sourceBuffer = NoBuffer \/ targetBuffer = NoBuffer)
    \/ sourceType = LIVE /\ (micStream = Null \/ targetBuffer = NoBuffer)
    \/ isLoading

\* The operators that end in await startRendering() unless they return early.
RenderingOperators ==
    {SPECTRAL, CONVOLUTION, TIME_WARP, HARMONIC_IMPRINT, INTERFERENCE_ECHOES, FORMANT_SHIFTING}

\* The awaited call waits for a render of the host, so that other events
\* are handled before handleFileTransform resumes: a morph whose two runs
\* fulfil, and a rendering operator that does not return the target buffer
\* early.  Every other call settles in the microtasks of the click.
AwaitsRendering(type, target, end) ==
    /\ end.outcome = "return"
    /\ \/ type = TRANSFORMATION_MORPH
       \/ type \in RenderingOperators /\ end.buffer # target

\* The handleFileTransform runs in flight.
Runs == {call \in inFlight : call.kind = "transform"}

LiveStart == [kind |-> "liveStart"]

MicRequest == [kind |-> "mic"]

\* What the App state and the model's other variables no App event changes.
appIdle == <<arr, arrIn, applied, featVars, svcVars, opCall, morphA, morphB, transformationParams, morphCall, fftEntries, fftBuild>>

InitApp ==
    /\ fftCache = {}
    /\ fftCall = NoCall
    /\ applied = <<>>
    /\ arr = NoArrays
    /\ arrIn = NoArrays
    /\ featBuf = NoBuffer
    /\ featCall = NoFeatCall
    /\ opCall = NoOpCall
    /\ sourceBuffer = NoBuffer
    /\ targetBuffer = NoBuffer
    /\ AppConstructed

\* The stop branch of toggleLiveProcessing when live, else nothing.
StopIfLive ==
    IF isLive THEN isLive' = FALSE /\ isLoading' = FALSE
    ELSE UNCHANGED <<isLive, isLoading>>

\* handleSourceUpload, from the uploader shown when the source is a file;
\* its remove button uploads null.
HandleSourceUpload(audioData) ==
    /\ sourceType = FILE
    /\ audioData = NoBuffer => sourceBuffer # NoBuffer
    /\ sourceBuffer' = audioData
    /\ processedAudio' = Null
    /\ error' = Null
    /\ UNCHANGED <<targetBuffer, transformation, isLoading, fileCall, sourceType, isLive, micStream>>
    /\ UNCHANGED <<fftCache, fftCall, appIdle, inFlight>>

HandleTargetUpload(audioData) ==
    /\ audioData = NoBuffer => targetBuffer # NoBuffer
    /\ targetBuffer' = audioData
    /\ processedAudio' = Null
    /\ error' = Null
    /\ StopIfLive
    /\ UNCHANGED <<sourceBuffer, transformation, fileCall, sourceType, micStream>>
    /\ UNCHANGED <<fftCache, fftCall, appIdle, inFlight>>

HandleSourceTypeChange(type) ==
    /\ sourceType' = type
    /\ StopIfLive
    /\ sourceBuffer' = NoBuffer
    /\ micStream' = Null
    /\ error' = Null
    /\ transformation' = IF transformation \in liveOnlyDisabledTransformations THEN AMPLITUDE
                         ELSE transformation
    /\ UNCHANGED <<targetBuffer, processedAudio, fileCall>>
    /\ UNCHANGED <<fftCache, fftCall, appIdle, inFlight>>

\* onChange of an option of the TransformationSelector: onSelect is
\* setTransformation.
SelectTransformation(id) ==
    /\ ~isDisabled(id)
    /\ id # transformation
    /\ transformation' = id
    /\ UNCHANGED <<sourceBuffer, targetBuffer, processedAudio, error, isLoading, fileCall, sourceType,
                   isLive, micStream>>
    /\ UNCHANGED <<fftCache, fftCall, appIdle, inFlight>>

\* handleMicEnable up to its await; the button is shown when the source is
\* live and there is no stream, and is disabled until the request settles.
HandleMicEnable ==
    /\ sourceType = LIVE
    /\ micStream = Null
    /\ MicRequest \notin inFlight
    /\ inFlight' = inFlight \cup {MicRequest}
    /\ UNCHANGED <<opVars, appVars, fftCache, fftCall, appIdle>>

\* getUserMedia settles: onMicStream is setMicStream, called with the
\* stream or with null.
MicSettles(stream) ==
    /\ MicRequest \in inFlight
    /\ micStream' = stream
    /\ inFlight' = inFlight \ {MicRequest}
    /\ UNCHANGED <<sourceBuffer, targetBuffer, transformation, processedAudio, error, isLoading, fileCall,
                   sourceType, isLive>>
    /\ UNCHANGED <<fftCache, fftCall, appIdle>>

\* The main button when the source is live: toggleLiveProcessing, which
\* stops, or starts up to its await.  One start is awaited at a time.
ToggleLiveProcessing ==
    /\ sourceType = LIVE
    /\ ~isCtaDisabled
    /\ IF isLive
       THEN /\ isLive' = FALSE
            /\ isLoading' = FALSE
            /\ UNCHANGED <<error, inFlight>>
       ELSE /\ LiveStart \notin inFlight
            /\ isLoading' = TRUE
            /\ error' = Null
            /\ inFlight' = inFlight \cup {LiveStart}
            /\ UNCHANGED isLive
    /\ UNCHANGED <<sourceBuffer, targetBuffer, transformation, processedAudio, fileCall, sourceType, micStream>>
    /\ UNCHANGED <<fftCache, fftCall, appIdle>>

\* The start of the live processor settles.
LiveStartSettles(fulfilled) ==
    /\ LiveStart \in inFlight
    /\ IF fulfilled THEN isLive' = TRUE /\ UNCHANGED error
       ELSE error' = "Failed to initialize audio worklet" /\ UNCHANGED isLive
    /\ isLoading' = FALSE
    /\ inFlight' = inFlight \ {LiveStart}
    /\ UNCHANGED <<sourceBuffer, targetBuffer, transformation, processedAudio, fileCall, sourceType, micStream>>
    /\ UNCHANGED <<fftCache, fftCall, appIdle>>

\* The tables the synchronous part of the dispatched operators asks for.
DispatchGetFFT ==
    LET sizes == DispatchFFTSizes(transformation, morphA, morphB)
    IN  /\ fftCache' = fftCache \cup sizes.cached
        /\ fftCall' = IF sizes.last = {} THEN fftCall
                      ELSE [size |-> Only(sizes.last), outcome |-> "return"]

\* The main button when the source is a file, with a call that settles in
\* the microtasks of the click: handleFileTransform from the click to the
\* end of its finally block.
HandleFileTransformAtOnce ==
    /\ sourceType = FILE
    /\ ~isCtaDisabled
    /\ \E end \in Dispatch(transformation, sourceBuffer, targetBuffer, morphA, morphB, transformationParams) :
          /\ ~AwaitsRendering(transformation, targetBuffer, end)
          /\ IF end.outcome = "return"
             THEN /\ processedAudio' = [name |-> "transformed_target", buffer |-> end.buffer]
                  /\ error' = Null
             ELSE /\ processedAudio' = Null
                  /\ error' = end.message
          /\ fileCall' = [outcome |-> end.outcome, transformation |-> transformation,
                          source |-> sourceBuffer, target |-> targetBuffer]
    /\ isLoading' = FALSE
    /\ DispatchGetFFT
    /\ UNCHANGED <<sourceBuffer, targetBuffer, transformation, sourceType, isLive, micStream>>
    /\ UNCHANGED <<appIdle, inFlight>>

\* The same button with a call that waits for a render: handleFileTransform
\* from the click to its await.  The run holds the source, the target and
\* the transformation of the render it was created in.
HandleFileTransformAwaits ==
    /\ sourceType = FILE
    /\ ~isCtaDisabled
    /\ Cardinality(Runs) < MaxInFlight
    /\ \E end \in Dispatch(transformation, sourceBuffer, targetBuffer, morphA, morphB, transformationParams) :
          /\ AwaitsRendering(transformation, targetBuffer, end)
          /\ inFlight' = inFlight \cup
                {[kind |-> "transform",
                  n |-> CHOOSE n \in 1 .. MaxInFlight : \A call \in Runs : call.n # n,
                  transformation |-> transformation, source |-> sourceBuffer, target |-> targetBuffer,
                  end |-> end]}
    /\ isLoading' = TRUE
    /\ error' = Null
    /\ processedAudio' = Null
    /\ DispatchGetFFT
    /\ UNCHANGED <<sourceBuffer, targetBuffer, transformation, fileCall, sourceType, isLive, micStream>>
    /\ UNCHANGED appIdle

\* The render is there: handleFileTransform from its await to the end of
\* its finally block.
HandleFileTransformResumes(call) ==
    /\ call \in Runs
    /\ processedAudio' = [name |-> "transformed_target", buffer |-> call.end.buffer]
    /\ isLoading' = FALSE
    /\ fileCall' = [outcome |-> "return", transformation |-> call.transformation,
                    source |-> call.source, target |-> call.target]
    /\ inFlight' = inFlight \ {call}
    /\ UNCHANGED <<sourceBuffer, targetBuffer, transformation, error, sourceType, isLive, micStream>>
    /\ UNCHANGED <<fftCache, fftCall, appIdle>>

NextApp ==
    \/ \E audioData \in AppSourceFiles \cup {NoBuffer} : HandleSourceUpload(audioData)
    \/ \E audioData \in AppTargetFiles \cup {NoBuffer} : HandleTargetUpload(audioData)
    \/ \E type \in {FILE, LIVE} : HandleSourceTypeChange(type)
    \/ \E id \in TransformationType : SelectTransformation(id)
    \/ HandleMicEnable
    \/ \E stream \in {Stream, Null} : MicSettles(stream)
    \/ ToggleLiveProcessing
    \/ \E fulfilled \in BOOLEAN : LiveStartSettles(fulfilled)
    \/ HandleFileTransformAtOnce
    \/ HandleFileTransformAwaits
    \/ \E call \in inFlight : HandleFileTransformResumes(call)

SpecApp == InitApp /\ [][NextApp]_vars

\* ------------------------------------------------------------------------
\* applySpectralShaping: the graph it builds, statement by statement
\* ------------------------------------------------------------------------
\* audioGraph.edges holds the connections made so far: <<from, to>> for
\* from.connect(to), where to is a node or a parameter of a node.  A node
\* is <<name, band>>, band 0 for the nodes made once and 1 .. BandCount for
\* those of a round of BAND_FREQUENCIES.forEach; the parameter gain of
\* targetGain is <<"targetGain.gain", band>>.

\* BAND_FREQUENCIES.length
BandCount == 16

\* The values of spectralMix a call is made with.
SpectralMixes == {Zero, Frac(1, 2), One}

Node(name, band) == <<name, band>>

\* createEnvelopeFollower(context) for a band: the connections it makes
\* and the node it returns.  smoother is connected to nothing.
createEnvelopeFollower(band) ==
    [edges |-> {<<Node("rectifierGain", band), Node("rectifierShaper", band)>>,
                <<Node("rectifierShaper", band), Node("lowpass", band)>>},
     returned |-> Node("rectifierGain", band)]

\* The six connect statements that end a round of the forEach, in order.
BandConnect(band, statement) ==
    CASE statement = 1 -> <<Node("sourceNode", 0), Node("sourceFilter", band)>>
      [] statement = 2 -> <<Node("sourceFilter", band), createEnvelopeFollower(band).returned>>
      [] statement = 3 -> <<Node("wetBus", 0), Node("targetFilter", band)>>
      [] statement = 4 -> <<Node("targetFilter", band), Node("targetGain", band)>>
      [] statement = 5 -> <<createEnvelopeFollower(band).returned, Node("targetGain.gain", band)>>
      [] statement = 6 -> <<Node("targetGain", band), Node("wetGain", 0)>>

InitSpectral ==
    /\ fftCache = {}
    /\ fftCall = NoCall
    /\ applied = <<>>
    /\ arr = NoArrays
    /\ arrIn = NoArrays
    /\ featBuf = NoBuffer
    /\ featCall = NoFeatCall
    /\ opCall = NoOpCall
    /\ sourceBuffer = NoBuffer
    /\ targetBuffer = NoBuffer
    /\ AppConstructed

spectralIdle == <<fftVars, featVars, opVars, appVars, callVars, processor, manager, generation>>

\* From the call to the forEach: the context, the two buffer sources, the
\* gains, the dry path and the wet bus.
SpectralCreateContext(spectralMix) ==
    /\ audioGraph = NoGraph
    /\ audioGraph' = [pc |-> "forEach", op |-> "spectralShaping", band |-> 1, statement |-> 0,
                      wetGain |-> spectralMix, dryGain |-> NSub(One, spectralMix),
                      edges |-> {<<Node("targetNode", 0), Node("dryGain", 0)>>,
                                 <<Node("dryGain", 0), Node("destination", 0)>>,
                                 <<Node("targetNode", 0), Node("wetBus", 0)>>},
                      started |-> {}, renders |-> 0]
    /\ UNCHANGED spectralIdle

\* A round of the forEach up to its connect statements: the two filters,
\* the gain and the envelope follower of the band.
SpectralCreateBand ==
    /\ audioGraph.pc = "forEach"
    /\ audioGraph.band <= BandCount
    /\ audioGraph.statement = 0
    /\ audioGraph' = [audioGraph EXCEPT !.statement = 1,
                                        !.edges = @ \cup createEnvelopeFollower(audioGraph.band).edges]
    /\ UNCHANGED spectralIdle

\* The next connect statement of the round.
SpectralConnect ==
    /\ audioGraph.pc = "forEach"
    /\ audioGraph.statement \in 1 .. 6
    /\ audioGraph' = [audioGraph EXCEPT
                        !.edges = @ \cup {BandConnect(audioGraph.band, audioGraph.statement)},
                        !.statement = IF audioGraph.statement = 6 THEN 0 ELSE audioGraph.statement + 1,
                        !.band = IF audioGraph.statement = 6 THEN audioGraph.band + 1 ELSE audioGraph.band]
    /\ UNCHANGED spectralIdle

\* After the forEach: the wet gain to the destination, both sources
\* started, the render.
SpectralRender ==
    /\ audioGraph.pc = "forEach"
    /\ audioGraph.band > BandCount
    /\ audioGraph' = [audioGraph EXCEPT !.pc = "rendered",
                                        !.edges = @ \cup {<<Node("wetGain", 0), Node("destination", 0)>>},
                                        !.started = {Node("sourceNode", 0), Node("targetNode", 0)},
                                        !.renders = @ + 1]
    /\ UNCHANGED spectralIdle

NextSpectral ==
    \/ \E spectralMix \in SpectralMixes : SpectralCreateContext(spectralMix)
    \/ SpectralCreateBand
    \/ SpectralConnect
    \/ SpectralRender

SpecSpectral == InitSpectral /\ [][NextSpectral]_vars

\* ------------------------------------------------------------------------
\* detectHarmonics and detectFormants from the spectrum on
\* ------------------------------------------------------------------------
\* The transform of more than 8 points is outside the tables of the number
\* field, and a transform of 8 points has the bins 1 .. 3, of which only
\* bin 2 can be a peak.  Here arr holds the arrays real and imag as they
\* are after fft(real, imag, false), drawn from all arrays rather than
\* computed (so from more arrays than the transform returns), and the
\* detectors are run from that point on.

\* The bins 1 .. fftSize/2 - 1 of the spectrum.
MaxSpectrumBins == 7

SpectrumFFTSize == 2 * (MaxSpectrumBins + 1)

\* The real parts of the bins; the imaginary parts are 0.
SpectrumSamples == {Zero, One, Num(2)}

\* Sample rates that put the band of the formants at the low bins, at the
\* high bins, and above all bins.
SpectrumRates == {1600, 16000, 160000}

PeakCounts == {1, 2, 12}

InitPeaks ==
    /\ fftCache = {}
    /\ fftCall = NoCall
    /\ applied = <<FALSE>>
    /\ \E re \in [1 .. MaxSpectrumBins -> SpectrumSamples] :
          arr = [size |-> SpectrumFFTSize,
                 re |-> [i \in 0 .. SpectrumFFTSize - 1 |-> IF i \in 1 .. MaxSpectrumBins THEN re[i] ELSE Zero],
                 im |-> [i \in 0 .. SpectrumFFTSize - 1 |-> Zero]]
    /\ arrIn = NoArrays
    /\ featBuf = NoBuffer
    /\ featCall = NoFeatCall
    /\ opCall = NoOpCall
    /\ sourceBuffer = NoBuffer
    /\ targetBuffer = NoBuffer
    /\ AppConstructed

\* detectHarmonics from the loop over the bins to its return.
DetectHarmonics(numHarmonics, sampleRate) ==
    /\ opCall = NoOpCall
    /\ LET magnitudes == Magnitudes(arr, arr.size, sampleRate)
       IN  opCall' = [op |-> "detectHarmonics", count |-> numHarmonics, magnitudes |-> magnitudes,
                      result |-> TopFrequencies(magnitudes, numHarmonics)]
    /\ UNCHANGED <<sourceBuffer, targetBuffer, fftVars, featVars, svcVars, appVars, callVars>>

\* detectFormants from the loop over the bins to its return.
DetectFormants(numFormants, sampleRate) ==
    /\ opCall = NoOpCall
    /\ LET magnitudes == magnitudesOfFormants(arr, arr.size, sampleRate)
       IN  opCall' = [op |-> "detectFormants", count |-> numFormants, magnitudes |-> magnitudes,
                      result |-> TopFrequencies(magnitudes, numFormants)]
    /\ UNCHANGED <<sourceBuffer, targetBuffer, fftVars, featVars, svcVars, appVars, callVars>>

NextPeaks ==
    \/ \E numHarmonics \in PeakCounts, sampleRate \in SpectrumRates : DetectHarmonics(numHarmonics, sampleRate)
    \/ \E numFormants \in PeakCounts, sampleRate \in SpectrumRates : DetectFormants(numFormants, sampleRate)

SpecPeaks == InitPeaks /\ [][NextPeaks]_vars

\* ------------------------------------------------------------------------
\* applyDynamicRingModulation: its loops over the channels and the frames
\* ------------------------------------------------------------------------
\* A phase is held exactly, as a rational number of eighths of pi (2*pi is
\* 16).  A sample of the result is held as what it is computed from: the
\* target sample, the phase the carrier Math.sin(phase) is taken at, and
\* ringModMix; it stands for
\* target * sin(phase) * mix + target * (1 - mix).

\* The frames of a buffer handed to applyDynamicRingModulation.
MaxRingFrames == 2

RingSourceSamples == {Zero, One, Frac(-1, 2)}

RingTargetSamples == {One}

RingBaseFreqs == {100, 2000}

RingRanges == {0, 5000}

RingMixes == {Frac(1, 2), One}

\* The smoothing applyDynamicRingModulation asks of getAmplitudeEnvelope.
RingSmoothing == Frac(99, 100)

TwoPi == Num(16)

\* sourceEnvData[i] || 0
EnvValue(sourceEnvData, i) ==
    IF i \in DOMAIN sourceEnvData /\ sourceEnvData[i] # NaN THEN sourceEnvData[i] ELSE Zero

\* 2 * Math.PI * modFreq / sr with modFreq = ringModBaseFreq + envValue * ringModRange
PhaseIncrement(envValue, ringModBaseFreq, ringModRange, sr) ==
    NDiv(NMul(TwoPi, NAdd(Num(ringModBaseFreq), NMul(envValue, Num(ringModRange)))), Num(sr))

\* phase += increment; if (phase > 2 * Math.PI) phase -= 2 * Math.PI
NextPhase(phase, increment) ==
    Only({ IF NGt(p, TwoPi) THEN NSub(p, TwoPi) ELSE p : p \in {NAdd(phase, increment)} })

\* The loop over the frames of one channel from frame i on: the samples
\* written and the phase the loop ends with.
RECURSIVE RingFrames(_, _, _, _)
RingFrames(w, targetData, i, phase) ==
    IF i >= w.length THEN [samples |-> <<>>, phase |-> phase]
    ELSE Only({ [samples |-> <<[target |-> targetData[i], phase |-> phase, mix |-> w.ringModMix]>> \o rest.samples,
                 phase |-> rest.phase] :
                rest \in {RingFrames(w, targetData, i + 1,
                                     NextPhase(phase, PhaseIncrement(EnvValue(w.sourceEnvData, i), w.ringModBaseFreq,
                                                                     w.ringModRange, w.sr)))} })

\* The loop over the channels from channel c on.  phase is declared before
\* this loop: a channel starts with the phase the channel before it ended
\* with.
RECURSIVE RingChannels(_, _, _, _)
RingChannels(w, target, c, phase) ==
    IF c >= target.numberOfChannels THEN <<>>
    ELSE Only({ <<[i \in 0 .. w.length - 1 |-> frames.samples[i + 1]]>>
                    \o RingChannels(w, target, c + 1, frames.phase) :
                frames \in {RingFrames(w, getChannelData(target, c), 0, phase)} })

\* The buffer applyDynamicRingModulation returns, sample by sample.
ringModulation(source, target, ringModBaseFreq, ringModRange, ringModMix) ==
    [id |-> "new", numberOfChannels |-> target.numberOfChannels, length |-> target.length,
     sampleRate |-> target.sampleRate,
     channels |-> RingChannels([sourceEnvData |-> getChannelData(getAmplitudeEnvelope(source, RingSmoothing), 0),
                                length |-> target.length, sr |-> target.sampleRate,
                                ringModBaseFreq |-> ringModBaseFreq, ringModRange |-> ringModRange,
                                ringModMix |-> ringModMix],
                               target, 0, Zero)]

InitRing ==
    /\ fftCache = {}
    /\ fftCall = NoCall
    /\ applied = <<>>
    /\ arr = NoArrays
    /\ arrIn = NoArrays
    /\ featBuf = NoBuffer
    /\ featCall = NoFeatCall
    /\ sourceBuffer \in Buffers("source", {1}, MaxRingFrames, RingSourceSamples, SourceRates)
    /\ targetBuffer \in Buffers("target", {1, 2}, 2 * MaxRingFrames, RingTargetSamples, SourceRates)
    /\ opCall = NoOpCall
    /\ AppConstructed

ApplyDynamicRingModulation(ringModBaseFreq, ringModRange, ringModMix) ==
    /\ opCall = NoOpCall
    /\ opCall' = [op |-> "applyDynamicRingModulation", ringModBaseFreq |-> ringModBaseFreq,
                  ringModRange |-> ringModRange, ringModMix |-> ringModMix,
                  result |-> ringModulation(sourceBuffer, targetBuffer, ringModBaseFreq, ringModRange,
                                            ringModMix)]
    /\ UNCHANGED <<sourceBuffer, targetBuffer, fftVars, featVars, svcVars, appVars, callVars>>

NextRing ==
    \E ringModBaseFreq \in RingBaseFreqs, ringModRange \in RingRanges, ringModMix \in RingMixes :
        ApplyDynamicRingModulation(ringModBaseFreq, ringModRange, ringModMix)

SpecRing == InitRing /\ [][NextRing]_vars

\* ------------------------------------------------------------------------
\* LiveAudioProcessor: start and stop calls on one processor
\* ------------------------------------------------------------------------
\* Contexts are numbered 1, 2, ... as they are made; 0 is null.  A start
\* call is at one of its two awaits until the promise it waits for settles,
\* and other calls run meanwhile.

\* The most start calls made on a processor.
MaxStarts == 3

\* The most stop calls made on a processor from outside it.
MaxStops == 2

\* A node reference that is null.
NoNode == [ctx |-> 0, by |-> 0]

\* The four private fields as the class initializes them.
AllNull == [context |-> 0, micSource |-> NoNode, targetSource |-> NoNode, workletNode |-> NoNode]

\* What a stop call can change: the fields and the contexts closed.
Resources(p) == [fields |-> p.fields, closed |-> p.closed]

\* A start call is waiting for a promise to settle.
Awaiting(call) == call.at \in {"resume", "addModule"}

\* stop(): nothing without a context, else the context closed and the four
\* fields null.
stop(p) ==
    IF p.fields.context = 0 THEN p
    ELSE [p EXCEPT !.fields = AllNull, !.closed = @ \cup {p.fields.context}]

\* The start calls other than k that a stop call finds waiting.
Overtaken(starts, k) ==
    [n \in DOMAIN starts |->
        IF n # k /\ Awaiting(starts[n]) THEN [starts[n] EXCEPT !.overtaken = TRUE] ELSE starts[n]]

\* Start call k ends: how, and with which fields.
Ended(p, k, at) == [p EXCEPT !.starts[k].at = at, !.starts[k].end = p.fields]

\* The catch block of start call k: stop(), then the error thrown.
Catch(p, k, failed) ==
    Only({ Ended([q EXCEPT !.starts = Overtaken(@, k), !.starts[k].failed = @ \/ failed], k, "threw") :
           q \in {stop(p)} })

\* new LiveAudioProcessor()
ProcessorConstruct ==
    /\ processor = NoProcessor
    /\ processor' = [pc |-> "constructed", fields |-> AllNull, contexts |-> 0, closed |-> {},
                     modules |-> {}, starts |-> <<>>, stops |-> 0,
                     lastStop |-> [before |-> [fields |-> AllNull, closed |-> {}],
                                   after |-> [fields |-> AllNull, closed |-> {}]]]
    /\ UNCHANGED <<fftVars, featVars, opVars, appVars, callVars, audioGraph, manager, generation>>

\* start(...) up to its first await or its end.  made tells what the
\* AudioContext constructor does: it throws, or the context it makes is
\* suspended or running.
ProcessorStart(made) ==
    /\ processor.pc = "constructed"
    /\ Len(processor.starts) < MaxStarts
    /\ LET k == Len(processor.starts) + 1
           n == processor.contexts + 1
           call == [at |-> "called", on |-> 0, made |-> 0, overtaken |-> FALSE, joined |-> FALSE,
                    failed |-> FALSE, end |-> AllNull]
           p == [processor EXCEPT
                    !.starts = Append([i \in DOMAIN @ |->
                                          IF Awaiting(@[i]) /\ processor.fields.context = 0 /\ made # "throw"
                                          THEN [@[i] EXCEPT !.joined = TRUE] ELSE @[i]], call)]
       IN  processor' =
               IF processor.fields.context # 0 THEN Ended(p, k, "warned")
               ELSE IF made = "throw" THEN Catch(p, k, TRUE)
               ELSE [p EXCEPT !.fields.context = n, !.contexts = n, !.starts[k].made = n,
                              !.starts[k].on = n,
                              !.starts[k].at = IF made = "suspended" THEN "resume" ELSE "addModule"]
    /\ UNCHANGED <<fftVars, featVars, opVars, appVars, callVars, audioGraph, manager, generation>>

\* The promise of context.resume() that start call k awaits settles, and the
\* call goes on to this.context.audioWorklet.addModule or to its catch.
ResumeSettles(k, fulfilled) ==
    /\ processor.pc = "constructed"
    /\ k \in DOMAIN processor.starts
    /\ processor.starts[k].at = "resume"
    /\ processor' =
          IF ~fulfilled THEN Catch(processor, k, TRUE)
          ELSE IF processor.fields.context = 0 THEN Catch(processor, k, FALSE)
          ELSE [processor EXCEPT !.starts[k].at = "addModule", !.starts[k].on = processor.fields.context]
    /\ UNCHANGED <<fftVars, featVars, opVars, appVars, callVars, audioGraph, manager, generation>>

\* The promise of addModule that start call k awaits settles, and the call
\* runs to its end: the three nodes made on this.context and connected, or
\* the catch.  nodeThrows: the AudioWorkletNode constructor throws for a
\* reason of its own.
AddModuleSettles(k, fulfilled, nodeThrows) ==
    /\ processor.pc = "constructed"
    /\ k \in DOMAIN processor.starts
    /\ processor.starts[k].at = "addModule"
    /\ LET p == [processor EXCEPT !.modules = IF fulfilled THEN @ \cup {processor.starts[k].on} ELSE @]
           c == processor.fields.context
       IN  processor' =
               IF ~fulfilled THEN Catch(p, k, TRUE)
               ELSE IF c = 0 THEN Catch(p, k, FALSE)
               ELSE IF c \notin p.modules \/ nodeThrows
               THEN Catch([p EXCEPT !.fields.micSource = [ctx |-> c, by |-> k],
                                    !.fields.targetSource = [ctx |-> c, by |-> k]], k, TRUE)
               ELSE Ended([p EXCEPT !.fields.micSource = [ctx |-> c, by |-> k],
                                    !.fields.targetSource = [ctx |-> c, by |-> k],
                                    !.fields.workletNode = [ctx |-> c, by |-> k]], k, "returned")
    /\ UNCHANGED <<fftVars, featVars, opVars, appVars, callVars, audioGraph, manager, generation>>

\* stop() called from outside the class.
ProcessorStop ==
    /\ processor.pc = "constructed"
    /\ processor.stops < MaxStops
    /\ processor' = Only({ [q EXCEPT !.starts = Overtaken(@, 0), !.stops = @ + 1,
                                     !.lastStop = [before |-> Resources(processor), after |-> Resources(q)]] :
                           q \in {stop(processor)} })
    /\ UNCHANGED <<fftVars, featVars, opVars, appVars, callVars, audioGraph, manager, generation>>

InitLive ==
    /\ fftCache = {}
    /\ fftCall = NoCall
    /\ applied = <<>>
    /\ arr = NoArrays
    /\ arrIn = NoArrays
    /\ featBuf = NoBuffer
    /\ featCall = NoFeatCall
    /\ sourceBuffer = NoBuffer
    /\ targetBuffer = NoBuffer
    /\ opCall = NoOpCall
    /\ AppConstructed

NextLive ==
    \/ ProcessorConstruct
    \/ \E made \in {"throw", "suspended", "running"} : ProcessorStart(made)
    \/ \E k \in 1 .. MaxStarts, fulfilled \in BOOLEAN : ResumeSettles(k, fulfilled)
    \/ \E k \in 1 .. MaxStarts, fulfilled \in BOOLEAN, nodeThrows \in BOOLEAN :
          AddModuleSettles(k, fulfilled, nodeThrows)
    \/ ProcessorStop

SpecLive == InitLive /\ [][NextLive]_vars

\* ------------------------------------------------------------------------
\* SonificationManager: togglePlayPause, resetForAudio and their callbacks
\* ------------------------------------------------------------------------
\* Buffer sources are numbered 1, 2, ... as they are made; 0 is null.  A
\* togglePlayPause call is at one of its two awaits until the promise it
\* waits for settles.  Times are 0 or 1, the duration of a generated buffer.

\* The most togglePlayPause calls made.
MaxToggles == 3

\* The most resetForAudio calls made.
MaxResets == 2

AudioNames == {"a.mp3", "b.mp3"}

\* activeAudioName when it is null.
NoAudioName == "null"

\* error when it is null.
NoError == "null"

getInitialState ==
    [activeAudioName |-> NoAudioName, isPlaying |-> FALSE, isSonifying |-> FALSE,
     currentTime |-> 0, duration |-> 0, error |-> NoError]

Min(a, b) == IF a <= b THEN a ELSE b

\* stop() of the buffer source in the field, if any: its ended event is due.
StopSource(sources, id) ==
    [s \in DOMAIN sources |-> IF s = id THEN [sources[s] EXCEPT !.stopped = TRUE] ELSE sources[s]]

\* cancelAnimationFrame(this.animationFrameId) where the id is not null.
Cancelled(frame) == IF frame = "none" THEN "none" ELSE "cancelled"

cleanupAudio(m) ==
    [m EXCEPT !.sources = StopSource(@, m.bufferSource),
              !.bufferSource = 0,
              !.frame = "none",
              !.state = getInitialState]

\* pollTime, elapsed seconds after the start of the buffer source.
pollTime(m, elapsed) ==
    Only({ [n EXCEPT !.frame = IF n.state.isPlaying THEN "requested" ELSE @] :
           n \in {IF m.bufferSource # 0
                  THEN [m EXCEPT !.state.currentTime = Min(elapsed, m.state.duration)]
                  ELSE m} })

\* togglePlayPause of call k from the test of activeAudioName on, to its
\* await of audioFactory() or to its end.
Toggled(m, k, elapsed) ==
    IF m.state.activeAudioName # m.calls[k].audioName \/ m.bufferSource = 0
    THEN Only({ [n EXCEPT !.state.isSonifying = TRUE, !.state.error = NoError,
                          !.state.activeAudioName = m.calls[k].audioName,
                          !.calls[k].at = "factory"] :
                n \in {cleanupAudio(m)} })
    ELSE IF m.context = "running"
    THEN [m EXCEPT !.suspending = TRUE, !.state.isPlaying = FALSE, !.frame = Cancelled(@),
                   !.calls[k].at = "returned"]
    ELSE pollTime([m EXCEPT !.state.isPlaying = TRUE, !.calls[k].at = "returned"], elapsed)

\* The module's one manager, constructed; the new context is suspended or
\* running as the browser's autoplay policy has it.
ManagerConstruct(context) ==
    /\ manager = NoManager
    /\ manager' = [pc |-> "constructed", state |-> getInitialState, bufferSource |-> 0, frame |-> "none",
                   context |-> context, suspending |-> FALSE, calls |-> <<>>, sources |-> <<>>,
                   resets |-> 0, playback |-> NoAudioName]
    /\ UNCHANGED <<fftVars, featVars, opVars, appVars, callVars, audioGraph, processor, generation>>

\* togglePlayPause(audioName, audioFactory) up to its first await or its end.
TogglePlayPause(audioName, elapsed) ==
    /\ manager.pc = "constructed"
    /\ Len(manager.calls) < MaxToggles
    /\ LET k == Len(manager.calls) + 1
           m == [manager EXCEPT !.calls = Append(@, [audioName |-> audioName, at |-> "called"])]
       IN  manager' =
               IF manager.state.isSonifying THEN [m EXCEPT !.calls[k].at = "returned"]
               ELSE IF manager.context = "suspended" THEN [m EXCEPT !.calls[k].at = "resume"]
               ELSE Toggled(m, k, elapsed)
    /\ UNCHANGED <<fftVars, featVars, opVars, appVars, callVars, audioGraph, processor, generation>>

\* The promise of audioContext.resume() that call k awaits fulfils.
ToggleResumes(k, elapsed) ==
    /\ manager.pc = "constructed"
    /\ k \in DOMAIN manager.calls
    /\ manager.calls[k].at = "resume"
    /\ manager' = Toggled([manager EXCEPT !.context = "running"], k, elapsed)
    /\ UNCHANGED <<fftVars, featVars, opVars, appVars, callVars, audioGraph, processor, generation>>

\* The promise of audioFactory() that call k awaits settles: with a buffer,
\* with null, or rejected.
FactorySettles(k, outcome) ==
    /\ manager.pc = "constructed"
    /\ k \in DOMAIN manager.calls
    /\ manager.calls[k].at = "factory"
    /\ manager' =
          IF outcome = "buffer"
          THEN LET id == Len(manager.sources) + 1
               IN  pollTime([manager EXCEPT
                                !.sources = Append(@, [by |-> k, audioName |-> manager.calls[k].audioName,
                                                       stopped |-> FALSE, ended |-> FALSE]),
                                !.bufferSource = id,
                                !.state.isSonifying = FALSE,
                                !.state.isPlaying = TRUE,
                                !.state.duration = 1,
                                !.playback = manager.calls[k].audioName,
                                !.calls[k].at = "returned"], 0)
          ELSE Only({ [n EXCEPT !.state.isSonifying = FALSE,
                                !.state.error = IF outcome = "null" THEN "Audio generation failed."
                                                ELSE "Could not generate audio from the shape.",
                                !.state.activeAudioName = manager.calls[k].audioName,
                                !.calls[k].at = "returned"] :
                      n \in {cleanupAudio(manager)} })
    /\ UNCHANGED <<fftVars, featVars, opVars, appVars, callVars, audioGraph, processor, generation>>

\* resetForAudio(audioName)
ResetForAudio(audioName) ==
    /\ manager.pc = "constructed"
    /\ manager.resets < MaxResets
    /\ manager' = [(IF manager.state.activeAudioName = audioName THEN cleanupAudio(manager) ELSE manager)
                      EXCEPT !.resets = @ + 1]
    /\ UNCHANGED <<fftVars, featVars, opVars, appVars, callVars, audioGraph, processor, generation>>

\* The ended event of buffer source s, stopped or played to its end.
OnEnded(s) ==
    /\ manager.pc = "constructed"
    /\ s \in DOMAIN manager.sources
    /\ ~manager.sources[s].ended
    /\ manager.sources[s].stopped \/ manager.context = "running"
    /\ manager' = [manager EXCEPT !.sources[s].ended = TRUE,
                                  !.state.isPlaying = FALSE,
                                  !.state.currentTime = manager.state.duration,
                                  !.frame = "none",
                                  !.bufferSource = 0]
    /\ UNCHANGED <<fftVars, featVars, opVars, appVars, callVars, audioGraph, processor, generation>>

\* The animation frame requested by pollTime comes.
PollTime(elapsed) ==
    /\ manager.pc = "constructed"
    /\ manager.frame = "requested"
    /\ manager' = pollTime([manager EXCEPT !.frame = "cancelled"], elapsed)
    /\ UNCHANGED <<fftVars, featVars, opVars, appVars, callVars, audioGraph, processor, generation>>

\* audioContext.suspend() takes effect.
SuspendSettles ==
    /\ manager.pc = "constructed"
    /\ manager.suspending
    /\ manager' = [manager EXCEPT !.suspending = FALSE, !.context = "suspended"]
    /\ UNCHANGED <<fftVars, featVars, opVars, appVars, callVars, audioGraph, processor, generation>>

NextManager ==
    \/ \E context \in {"suspended", "running"} : ManagerConstruct(context)
    \/ \E audioName \in AudioNames, elapsed \in 0 .. 1 : TogglePlayPause(audioName, elapsed)
    \/ \E k \in 1 .. MaxToggles, elapsed \in 0 .. 1 : ToggleResumes(k, elapsed)
    \/ \E k \in 1 .. MaxToggles, outcome \in {"buffer", "null", "throw"} : FactorySettles(k, outcome)
    \/ \E audioName \in AudioNames : ResetForAudio(audioName)
    \/ \E s \in 1 .. MaxToggles : OnEnded(s)
    \/ \E elapsed \in 0 .. 1 : PollTime(elapsed)
    \/ SuspendSettles

SpecManager == InitLive /\ [][NextManager]_vars

\* ------------------------------------------------------------------------
\* generateGeometryData: the steps of one call
\* ------------------------------------------------------------------------
\* The vertices of a shape are held as the shape's name, progress values in
\* hundredths.  A step is a timer callback; the signal is aborted between
\* callbacks.

ShapeTypes == {"tube", "sphere", "torus", "flat", "spectrogram"}

VizModes == {"single", "blend"}

\* No Float32Array made yet.
NoVertices == [shape |-> "null"]

generateVerticesForShape(shapeType) == [shape |-> shapeType]

\* The test of the signal that processStep never makes.
Aborted_Never(g) == FALSE

\* if (abortSignal.aborted)
Aborted(g) == g.aborted

\* The indices wrap around in both directions.
isTorusOrSphere(vizMode, shapeA, shapeB) ==
    \/ vizMode = "single" /\ shapeA \in {"torus", "sphere"}
    \/ vizMode = "blend" /\ {shapeA, shapeB} \cap {"torus", "sphere"} # {}

\* case 'A'
StepA(g) ==
    [g EXCEPT !.verticesA = generateVerticesForShape(g.shapeA),
              !.progress = Append(@, IF g.vizMode = "single" THEN 80 ELSE 40),
              !.ran = Append(@, "A"),
              !.scheduled = "B"]

\* case 'B'
StepB(g) ==
    [g EXCEPT !.verticesB = IF g.vizMode = "blend" THEN generateVerticesForShape(g.shapeB) ELSE @,
              !.progress = Append(@, IF g.vizMode = "single" THEN 90 ELSE 80),
              !.ran = Append(@, "B"),
              !.scheduled = "Blend"]

\* case 'Blend'
StepBlend(g) ==
    IF g.vizMode = "single" /\ g.verticesA # NoVertices
    THEN [g EXCEPT !.geometry = [position |-> <<g.verticesA>>,
                                 wrapped |-> isTorusOrSphere(g.vizMode, g.shapeA, g.shapeB)],
                   !.progress = Append(@, 100), !.promise = "resolved",
                   !.ran = Append(@, "Blend"), !.scheduled = "none"]
    ELSE IF g.vizMode = "blend" /\ g.verticesA # NoVertices /\ g.verticesB # NoVertices
    THEN [g EXCEPT !.geometry = [position |-> <<g.verticesA, g.verticesB>>,
                                 wrapped |-> isTorusOrSphere(g.vizMode, g.shapeA, g.shapeB)],
                   !.progress = Append(@, 100), !.promise = "resolved",
                   !.ran = Append(@, "Blend"), !.scheduled = "none"]
    ELSE [g EXCEPT !.promise = "Error", !.ran = Append(@, "Blend"), !.scheduled = "none"]

\* processStep(step), the callback of the timer set for it.
processStep(g) ==
    IF Aborted(g)
    THEN [g EXCEPT !.promise = IF @ = "pending" THEN "AbortError" ELSE @, !.scheduled = "none"]
    ELSE IF g.scheduled = "A" THEN StepA(g)
    ELSE IF g.scheduled = "B" THEN StepB(g)
    ELSE StepBlend(g)

\* generateGeometryData(buffer, options) up to the promise it returns, with a
\* signal that is aborted already or not.
GenerateGeometryData(vizMode, shapeA, shapeB, aborted) ==
    /\ generation = NoGeneration
    /\ generation' = [pc |-> "called", vizMode |-> vizMode, shapeA |-> shapeA, shapeB |-> shapeB,
                      aborted |-> aborted, ranAtAbort |-> 0, promiseAtAbort |-> "pending",
                      verticesA |-> NoVertices, verticesB |-> NoVertices,
                      geometry |-> [position |-> <<>>, wrapped |-> FALSE],
                      progress |-> <<5>>, ran |-> <<>>, scheduled |-> "A", promise |-> "pending"]
    /\ UNCHANGED <<fftVars, featVars, opVars, appVars, callVars, audioGraph, processor, manager>>

\* The timer set last comes.
ProcessStep ==
    /\ generation.pc = "called"
    /\ generation.scheduled # "none"
    /\ generation' = processStep(generation)
    /\ UNCHANGED <<fftVars, featVars, opVars, appVars, callVars, audioGraph, processor, manager>>

\* abortController.abort(), by the cleanup of the effect that made the call.
Abort ==
    /\ generation.pc = "called"
    /\ ~generation.aborted
    /\ generation' = [generation EXCEPT !.aborted = TRUE, !.ranAtAbort = Len(generation.ran),
                                        !.promiseAtAbort = generation.promise]
    /\ UNCHANGED <<fftVars, featVars, opVars, appVars, callVars, audioGraph, processor, manager>>

NextGeometry ==
    \/ \E vizMode \in VizModes, shapeA \in ShapeTypes, shapeB \in ShapeTypes, aborted \in BOOLEAN :
          GenerateGeometryData(vizMode, shapeA, shapeB, aborted)
    \/ ProcessStep
    \/ Abort

SpecGeometry == InitLive /\ [][NextGeometry]_vars

\* ------------------------------------------------------------------------
\* sonifyGeometry: the offline context of one call
\* ------------------------------------------------------------------------
\* The geometry is held as its number of vertices and whether it has
\* positions and normals; an oscillator as the segment and the bin it is
\* made for; the peak of the rendered buffer as 0 or 1.

\* The most vertices of a geometry.
MaxVertices == 4

\* The most time segments and the most frequency bins of a geometry.
MaxSegments == 2

\* Math.floor(Math.sqrt(n))
ISqrt(n) == CHOOSE r \in 0 .. n : r * r <= n /\ n < (r + 1) * (r + 1)

effectiveTimeSegments(vertexCount, timeSegments, freqBins) ==
    IF vertexCount # timeSegments * freqBins THEN ISqrt(vertexCount) ELSE timeSegments

\* NaN, for no vertices and no segments, is held as 0: no loop runs then.
effectiveFreqBins(vertexCount, timeSegments, freqBins) ==
    IF vertexCount # timeSegments * freqBins
    THEN Only({ IF e = 0 THEN 0 ELSE vertexCount \div e :
                e \in {effectiveTimeSegments(vertexCount, timeSegments, freqBins)} })
    ELSE freqBins

\* The oscillators the two loops make and start: one for each segment t and
\* bin f whose vertex exists.
Oscillators(vertexCount, timeSegments, freqBins) ==
    Only({ {tf \in (0 .. ets - 1) \X (0 .. efb - 1) : tf[1] * efb + tf[2] < vertexCount} :
           ets \in {effectiveTimeSegments(vertexCount, timeSegments, freqBins)},
           efb \in {effectiveFreqBins(vertexCount, timeSegments, freqBins)} })

\* offlineCtx.startRendering(): the call counted, and the promise it returns,
\* rejected with InvalidStateError when the context has rendered before.
startRendering(g) ==
    [g EXCEPT !.renders = @ + 1,
              !.rendering = IF g.renders = 0 THEN "pending" ELSE "InvalidStateError"]

\* sonifyGeometry(audioContext, destination, geometryData, params) up to its
\* first await or its end.
SonifyGeometry(vertexCount, timeSegments, freqBins, hasPosition, hasNormals, stereoMode) ==
    /\ audioGraph = NoGraph
    /\ LET g == [pc |-> "built", op |-> "sonifyGeometry", vertexCount |-> vertexCount,
                 stereoMode |-> stereoMode, swirl |-> stereoMode = "swirl" /\ hasNormals,
                 gain |-> One, oscillators |-> {}, renders |-> 0, rendering |-> "none",
                 outcome |-> "none"]
       IN  audioGraph' =
               IF ~hasPosition
               THEN [g EXCEPT !.pc = "ended", !.outcome = "Geometry is missing position data."]
               ELSE startRendering([g EXCEPT !.pc = "first",
                                             !.oscillators = Oscillators(vertexCount, timeSegments,
                                                                         freqBins)])
    /\ UNCHANGED spectralIdle

\* The promise of the first startRendering settles: the peak found, the gain
\* set, and startRendering called again; or the catch.
FirstRenderSettles(fulfilled, maxAmp) ==
    /\ audioGraph.pc = "first"
    /\ audioGraph' =
          IF ~fulfilled THEN [audioGraph EXCEPT !.pc = "ended", !.outcome = "rejected", !.rendering = "none"]
          ELSE startRendering([audioGraph EXCEPT
                                  !.pc = "second",
                                  !.gain = IF NGt(maxAmp, Frac(1, 100)) THEN NDiv(Frac(98, 100), maxAmp)
                                           ELSE @])
    /\ UNCHANGED spectralIdle

\* The promise of the second startRendering settles: the buffer returned, or
\* the catch, which throws the error again.
SecondRenderSettles ==
    /\ audioGraph.pc = "second"
    /\ audioGraph' = [audioGraph EXCEPT !.pc = "ended", !.rendering = "none",
                                        !.outcome = IF audioGraph.rendering = "pending" THEN "returned"
                                                    ELSE audioGraph.rendering]
    /\ UNCHANGED spectralIdle

NextSonify ==
    \/ \E vertexCount \in 0 .. MaxVertices, timeSegments \in 0 .. MaxSegments, freqBins \in 1 .. MaxSegments,
          hasPosition \in BOOLEAN, hasNormals \in BOOLEAN, stereoMode \in {"pan", "swirl"} :
          SonifyGeometry(vertexCount, timeSegments, freqBins, hasPosition, hasNormals, stereoMode)
    \/ \E fulfilled \in BOOLEAN, maxAmp \in {Zero, Frac(1, 100), One} : FirstRenderSettles(fulfilled, maxAmp)
    \/ SecondRenderSettles

SpecSonify == InitLive /\ [][NextSonify]_vars

\* ------------------------------------------------------------------------
\* C1
\* ------------------------------------------------------------------------

RECURSIVE IsPowerOfTwo(_)
IsPowerOfTwo(n) == IF n <= 1 THEN n = 1 ELSE IF n % 2 = 1 THEN FALSE ELSE IsPowerOfTwo(n \div 2)

\* C1: getFFT(size) throws for every size <= 0 and for every positive size
\* that is not a power of two, and returns a transform for every power of
\* two.
C1_ThrowsIffNotPowerOfTwo ==
    fftCall.outcome # "none" =>
        (fftCall.outcome = "throw" <=> ~IsPowerOfTwo(fftCall.size))

\* getFFT(512) and getFFT(1024) have returned and getFFT(300) has thrown.
C1_Witness ==
    /\ fftCall = [size |-> 300, outcome |-> "throw"]
    /\ {512, 1024} \subseteq fftCache

\* ------------------------------------------------------------------------
\* C8
\* ------------------------------------------------------------------------

\* C8: the inverse transform applied after the forward transform returns
\* the arrays as they were: ifft(fft(x)) = x, for the sizes 2, 4 and 8 (and 1).
C8_RoundTrip == applied = <<FALSE, TRUE>> => (arr.re = arrIn.re /\ arr.im = arrIn.im)

C8_Witness ==
    /\ applied = <<FALSE, TRUE>>
    /\ arr.size = 8
    /\ Cardinality({i \in 0 .. 7 : arrIn.re[i] # Zero \/ arrIn.im[i] # Zero}) = 2

\* ------------------------------------------------------------------------
\* C5
\* ------------------------------------------------------------------------

AscendingFrom0ToLast(t, length) ==
    /\ t[1] = 0
    /\ t[Len(t)] = length - 1
    /\ \A k \in 1 .. Len(t) : t[k] \in 0 .. length - 1
    /\ \A k \in 1 .. Len(t) - 1 : t[k] < t[k + 1]

\* C5: for every buffer of at least one frame and every threshold,
\* detectTransients returns a strictly ascending list of frame indices
\* within [0, length - 1] that starts with frame 0 and ends with the final
\* frame, which is therefore never entered twice.
C5_TransientsAscending ==
    featCall.op = "detectTransients" => AscendingFrom0ToLast(featCall.transients, featBuf.length)

\* A detected onset is itself the final frame: nothing is appended.
C5_Witness ==
    /\ featCall.op = "detectTransients"
    /\ featBuf.length = 5
    /\ featCall.transients = <<0, 4>>
    /\ featBuf.sampleRate = 40

\* ------------------------------------------------------------------------
\* C6
\* ------------------------------------------------------------------------

\* C6 as claimed: no two entries of the list, the sentinels included, are
\* closer than minSeparation frames.
C6_AllSeparated ==
    featCall.op = "detectTransients" =>
        \A k \in 1 .. Len(featCall.transients) - 1 :
            featCall.transients[k + 1] - featCall.transients[k]
                >= MinSeparation(featBuf.sampleRate, MinSeparationMs)

\* C6, amended: every entry but the last is at least minSeparation frames
\* after the entry before it (frame 0 included); the final frame is
\* appended whatever its distance to the entry before it.
C6_SeparatedButLast ==
    featCall.op = "detectTransients" =>
        \A k \in 1 .. Len(featCall.transients) - 2 :
            featCall.transients[k + 1] - featCall.transients[k]
                >= MinSeparation(featBuf.sampleRate, MinSeparationMs)

\* Two onsets are accepted and the final frame follows the second closely.
C6_Witness ==
    /\ featCall.op = "detectTransients"
    /\ featBuf.sampleRate = 20
    /\ featCall.transients = <<0, 2, 4, 5>>

\* ------------------------------------------------------------------------
\* C7
\* ------------------------------------------------------------------------

ChannelBounded(inputData, outputData, length) ==
    /\ \A i \in 0 .. length - 1 : NLeq(Zero, outputData[i]) /\ NLeq(outputData[i], One)
    /\ (\E i \in 0 .. length - 1 : inputData[i] # Zero) => (\E i \in 0 .. length - 1 : outputData[i] = One)
    /\ (\A i \in 0 .. length - 1 : inputData[i] = Zero) => (\A i \in 0 .. length - 1 : outputData[i] = Zero)

\* C7: every sample of the envelope lies in [0, 1]; a channel with a
\* non-zero sample has the peak 1, and an all-zero channel has an all-zero
\* envelope.
C7_EnvelopeBounded ==
    featCall.op = "getAmplitudeEnvelope" =>
        /\ featCall.envelope.length = featBuf.length
        /\ featCall.envelope.numberOfChannels = featBuf.numberOfChannels
        /\ \A c \in 0 .. featBuf.numberOfChannels - 1 :
               ChannelBounded(getChannelData(featBuf, c), getChannelData(featCall.envelope, c), featBuf.length)

\* One channel is silent and stays zero, the other has negative samples
\* and is normalized to the peak 1 with a value strictly inside (0, 1).
C7_Witness ==
    /\ featCall.op = "getAmplitudeEnvelope"
    /\ featBuf.numberOfChannels = 2
    /\ \A i \in 0 .. featBuf.length - 1 : getChannelData(featBuf, 0)[i] = Zero
    /\ \E i \in 0 .. featBuf.length - 1 : getChannelData(featBuf, 1)[i] = Num(-1)
    /\ \E i \in 0 .. featBuf.length - 1 :
          /\ NLt(Zero, getChannelData(featCall.envelope, 1)[i])
          /\ NLt(getChannelData(featCall.envelope, 1)[i], One)

\* ------------------------------------------------------------------------
\* C3
\* ------------------------------------------------------------------------

\* C3: every sample of the buffer applyRhythmicGating returns is 0 or the
\* target's sample at the same channel and frame, also at the frames past
\* the end of the source; the buffer has the target's shape.
C3_GateBinary ==
    opCall.op = "applyRhythmicGating" =>
        /\ opCall.result.numberOfChannels = targetBuffer.numberOfChannels
        /\ opCall.result.length = targetBuffer.length
        /\ \A c \in 0 .. targetBuffer.numberOfChannels - 1 : \A i \in 0 .. targetBuffer.length - 1 :
               \/ getChannelData(opCall.result, c)[i] = Zero
               \/ getChannelData(opCall.result, c)[i] = getChannelData(targetBuffer, c)[i]

\* The source is shorter than the target: the gate lets the first frame
\* through and the frame past the source's end is silent.
C3_Witness ==
    /\ opCall.op = "applyRhythmicGating"
    /\ sourceBuffer.length = 1
    /\ targetBuffer.length = 2
    /\ getChannelData(targetBuffer, 0)[0] = Frac(-1, 2)
    /\ getChannelData(opCall.result, 0)[0] = Frac(-1, 2)
    /\ getChannelData(targetBuffer, 0)[1] = Frac(-1, 2)
    /\ getChannelData(opCall.result, 0)[1] = Zero

\* ------------------------------------------------------------------------
\* C4
\* ------------------------------------------------------------------------

Silent(buffer) ==
    \A c \in 0 .. buffer.numberOfChannels - 1 : \A i \in 0 .. buffer.length - 1 :
        getChannelData(buffer, c)[i] = Zero

\* C4: with a source of silence applyHarmonicImprinting and
\* applyFormantShifting return the target buffer itself, whatever the
\* number of peaks asked for.
C4_SilencePassesTarget ==
    (opCall.op \in {"applyHarmonicImprinting", "applyFormantShifting"} /\ Silent(sourceBuffer)) =>
        opCall.result = targetBuffer

C4_Witness ==
    /\ opCall.op = "applyHarmonicImprinting"
    /\ opCall.numHarmonics = 12
    /\ Silent(sourceBuffer)
    /\ sourceBuffer.length = 3
    /\ ~Silent(targetBuffer)
    /\ opCall.result = targetBuffer

\* ------------------------------------------------------------------------
\* C10
\* ------------------------------------------------------------------------

\* C10: applyTimeScaleWarping returns the target buffer itself when the
\* source or the target has fewer than 2 transients, and
\* applyInterferenceEchoes when the source has at most 1.
C10_FewTransientsPassTarget ==
    /\ opCall.op = "applyTimeScaleWarping" =>
          ((\/ Len(detectTransients(sourceBuffer, opCall.transientSensitivity, MinSeparationMs)) < 2
            \/ Len(detectTransients(targetBuffer, opCall.transientSensitivity, MinSeparationMs)) < 2)
           => opCall.result = targetBuffer)
    /\ opCall.op = "applyInterferenceEchoes" =>
          (Len(detectTransients(sourceBuffer, EchoSensitivity, MinSeparationMs)) <= 1
           => opCall.result = targetBuffer)

\* A one-frame source has the one transient 0; the target has two.
C10_Witness ==
    /\ opCall.op = "applyInterferenceEchoes"
    /\ sourceBuffer.length = 1
    /\ targetBuffer.length = 2
    /\ detectTransients(sourceBuffer, EchoSensitivity, MinSeparationMs) = <<0>>
    /\ opCall.result = targetBuffer

\* ------------------------------------------------------------------------
\* C2
\* ------------------------------------------------------------------------

\* The morph of two operators returned a buffer.
Morphed ==
    /\ fileCall.outcome = "return"
    /\ fileCall.transformation = TRANSFORMATION_MORPH

MorphOut == processedAudio.buffer

\* The rendered cross-fade is the buffer r alone: it has r's length,
\* channel count and sample rate, r passes at gain 1 and the other result
\* at gain 0.
EqualsAlone(out, r, gain, otherGain) ==
    /\ out.length = r.length
    /\ out.numberOfChannels = r.numberOfChannels
    /\ out.sampleRate = r.sampleRate
    /\ gain = One
    /\ otherGain = Zero

\* C2 as claimed: at morphPosition 0 the morph equals operator A's result
\* in length, channel count and samples, at 1 operator B's.
C2_EndpointIsOperatorAlone ==
    Morphed =>
        /\ transformationParams.morphPosition = Zero =>
              EqualsAlone(MorphOut, MorphOut.graph.resultA, MorphOut.graph.gainA, MorphOut.graph.gainB)
        /\ transformationParams.morphPosition = One =>
              EqualsAlone(MorphOut, MorphOut.graph.resultB, MorphOut.graph.gainB, MorphOut.graph.gainA)

\* C2, amended: the morph has the longer of the two results' lengths, the
\* smaller of their channel counts and the sample rate of A's result.  At
\* morphPosition 0 A's result passes at gain 1 and B's at gain 0, and the
\* morph equals A's result exactly when that is no shorter than B's and
\* has no more channels; at 1 B's result passes alone, and the morph
\* equals it exactly when it is no shorter than A's, has no more channels
\* and has the sample rate of A's.
C2_EndpointPaddedAndMixedDown ==
    Morphed =>
        LET a == MorphOut.graph.resultA
            b == MorphOut.graph.resultB
        IN  /\ MorphOut.length = IMax(a.length, b.length)
            /\ MorphOut.numberOfChannels = IMin(a.numberOfChannels, b.numberOfChannels)
            /\ MorphOut.sampleRate = a.sampleRate
            /\ a \in Operator(morphA, sourceBuffer, targetBuffer, transformationParams)
            /\ b \in Operator(morphB, sourceBuffer, targetBuffer, transformationParams)
            /\ transformationParams.morphPosition = Zero =>
                  /\ MorphOut.graph.gainA = One /\ MorphOut.graph.gainB = Zero
                  /\ EqualsAlone(MorphOut, a, MorphOut.graph.gainA, MorphOut.graph.gainB)
                        <=> (a.length >= b.length /\ a.numberOfChannels <= b.numberOfChannels)
            /\ transformationParams.morphPosition = One =>
                  /\ MorphOut.graph.gainB = One /\ MorphOut.graph.gainA = Zero
                  /\ EqualsAlone(MorphOut, b, MorphOut.graph.gainB, MorphOut.graph.gainA)
                        <=> (/\ b.length >= a.length
                             /\ b.numberOfChannels <= a.numberOfChannels
                             /\ b.sampleRate = a.sampleRate)

\* At position 0 Amplitude Mapping of a stereo target is morphed with
\* Surface Translation, which is mono: the morph is mono.
C2_Witness ==
    /\ Morphed
    /\ transformationParams.morphPosition = Zero
    /\ morphA = AMPLITUDE
    /\ morphB = SURFACE_TRANSLATE
    /\ MorphOut.graph.resultA.numberOfChannels = 2
    /\ MorphOut.numberOfChannels = 1
    /\ MorphOut.graph.gainA = One

\* ------------------------------------------------------------------------
\* C9
\* ------------------------------------------------------------------------

\* C9: a morph whose operator A or B is none of the eleven operators (the
\* morph itself included) ends in an error and no buffer, and so does
\* handleFileTransform for a type that is no member of the enum.
C9_UnknownOperatorIsAnError ==
    /\ (/\ fileCall.outcome \in {"return", "throw"}
        /\ fileCall.transformation = TRANSFORMATION_MORPH
        /\ morphA \notin morphableTransformations \/ morphB \notin morphableTransformations)
       => (/\ fileCall.outcome = "throw"
           /\ processedAudio = Null
           /\ error = "Invalid transformation type for morphing")
    /\ (/\ fileCall.outcome \in {"return", "throw"}
        /\ fileCall.transformation \notin TransformationType)
       => (/\ fileCall.outcome = "throw"
           /\ processedAudio = Null
           /\ error = "Unknown transformation type")

\* A morph nested in a morph as operator B, operator A being a real one.
C9_Witness ==
    /\ fileCall.outcome = "throw"
    /\ fileCall.transformation = TRANSFORMATION_MORPH
    /\ morphA = RHYTHMIC
    /\ morphB = TRANSFORMATION_MORPH
    /\ processedAudio = Null
    /\ error = "Invalid transformation type for morphing"

\* ------------------------------------------------------------------------
\* C11
\* ------------------------------------------------------------------------

\* value is what stands at position index (from 0) of the samples put in
\* ascending order: fewer than index + 1 samples are below it and more than
\* index samples are not above it.
IsRanked(data, length, index, value) ==
    /\ \E k \in 0 .. length - 1 : data[k] = value
    /\ Cardinality({k \in 0 .. length - 1 : NLt(data[k], value)}) <= index
    /\ Cardinality({k \in 0 .. length - 1 : NLeq(data[k], value)}) > index

\* C11: applySurfaceTranslationMapping returns one channel of as many frames
\* as the source has, whatever the target's length; for every frame the
\* clamped index lies in [0, n - 1], n the target's frame count, and the
\* output sample is the sample that stands at that index of the target's
\* channel 0 put in ascending order - for every amplitude and every jitter.
C11_SurfaceIndexInRange ==
    opCall.op = "applySurfaceTranslationMapping" =>
        /\ opCall.result.numberOfChannels = 1
        /\ opCall.result.length = sourceBuffer.length
        /\ \A i \in 0 .. sourceBuffer.length - 1 :
              /\ opCall.indices[i] \in 0 .. targetBuffer.length - 1
              /\ IsRanked(getChannelData(targetBuffer, 0), targetBuffer.length, opCall.indices[i],
                          getChannelData(opCall.result, 0)[i])

\* A call with jitter whose source is longer than its target, has an
\* amplitude outside [-1, 1], and picks an index other than the one picked
\* without jitter.
C11_Witness ==
    /\ opCall.op = "applySurfaceTranslationMapping"
    /\ sourceBuffer.length > targetBuffer.length
    /\ targetBuffer.length > 1
    /\ \E i \in 0 .. sourceBuffer.length - 1 : NGt(getChannelData(sourceBuffer, 0)[i], One)
    /\ opCall.indices # SurfaceIndices(sourceBuffer, targetBuffer, Zero, NoRandom(sourceBuffer))
    /\ C11_SurfaceIndexInRange

\* ------------------------------------------------------------------------
\* C12
\* ------------------------------------------------------------------------

\* Frame index k lies in a whole frame of fftSize samples that starts at a
\* multiple of the hop and ends within length.
InWholeFrame(k, length) ==
    \E start \in 0 .. length :
        /\ start % HopSize = 0
        /\ start + FourierFFTSize <= length
        /\ k \in start .. start + FourierFFTSize - 1

\* C12: applyFourierMasking returns one channel of min(sourceLen, targetLen)
\* frames; every index at which it reads the inputs or adds to the result
\* lies in [0, min(sourceLen, targetLen)) and in a whole frame of fftSize
\* samples at a multiple of the hop; inputs shorter than one frame give a
\* result of that length that is zero throughout.
C12_FourierFramesInRange ==
    opCall.op = "applyFourierMasking" =>
        LET length == IMin(sourceBuffer.length, targetBuffer.length)
        IN  /\ opCall.result.length = length
            /\ opCall.result.numberOfChannels = 1
            /\ opCall.reads \subseteq 0 .. length - 1
            /\ opCall.writes \subseteq 0 .. length - 1
            /\ \A k \in opCall.reads \cup opCall.writes : InWholeFrame(k, length)
            /\ length < FourierFFTSize =>
                  /\ opCall.writes = {}
                  /\ opCall.result = createBuffer(1, length, sourceBuffer.sampleRate)

\* A call that processes frames and leaves the frames after the last whole
\* frame untouched, the buffers being of different lengths.
C12_Witness ==
    /\ opCall.op = "applyFourierMasking"
    /\ sourceBuffer.length > targetBuffer.length
    /\ opCall.writes # {}
    /\ opCall.writes # 0 .. targetBuffer.length - 1
    /\ C12_FourierFramesInRange

\* A call on inputs shorter than one frame.
C12_WitnessShort ==
    /\ opCall.op = "applyFourierMasking"
    /\ IMin(sourceBuffer.length, targetBuffer.length) < FourierFFTSize
    /\ opCall.result.id = "new"

\* ------------------------------------------------------------------------
\* C13
\* ------------------------------------------------------------------------

\* The number of leading samples of data whose magnitude does not exceed
\* the threshold.
LeadingSilence(data, length) ==
    Cardinality({i \in 0 .. length - 1 : \A k \in 0 .. i : NLeq(NAbs(data[k]), TrimThreshold)})

\* result is buffer without its first n frames, every channel alike.
IsWithoutLeadingFrames(result, buffer, n) ==
    /\ result.length = buffer.length - n
    /\ result.numberOfChannels = buffer.numberOfChannels
    /\ result.sampleRate = buffer.sampleRate
    /\ \A c \in 1 .. buffer.numberOfChannels :
          \A i \in 0 .. buffer.length - n - 1 : result.channels[c][i] = buffer.channels[c][i + n]

\* C13 as stated: the render has sourceLen + targetLen - 1 frames and what
\* is returned is the render without its leading near-silent frames of
\* channel 0, however many there are.
C13_LeadingSilenceRemoved ==
    opCall.op = "applyConvolution" =>
        /\ opCall.renderedBuffer.length = sourceBuffer.length + targetBuffer.length - 1
        /\ IsWithoutLeadingFrames(opCall.result, opCall.renderedBuffer,
                                  LeadingSilence(getChannelData(opCall.renderedBuffer, 0),
                                                 opCall.renderedBuffer.length))

\* C13: the render has sourceLen + targetLen - 1 frames.  When some sample
\* of its channel 0 exceeds the threshold in magnitude, what is returned is
\* the render without the frames before the first such sample, the same
\* frames removed from every channel and the rest kept in order and value.
\* When no sample of channel 0 does, the render is returned whole.
C13_LeadingSilenceRemovedIfSound ==
    opCall.op = "applyConvolution" =>
        LET data == getChannelData(opCall.renderedBuffer, 0)
            length == opCall.renderedBuffer.length
        IN  /\ length = sourceBuffer.length + targetBuffer.length - 1
            /\ IF \E i \in 0 .. length - 1 : NGt(NAbs(data[i]), TrimThreshold)
               THEN IsWithoutLeadingFrames(opCall.result, opCall.renderedBuffer, LeadingSilence(data, length))
               ELSE opCall.result = opCall.renderedBuffer

\* A stereo render that is trimmed, the sound channel 0 starts with being
\* negative and channel 1 being loud before it.
C13_Witness ==
    /\ opCall.op = "applyConvolution"
    /\ opCall.renderedBuffer.numberOfChannels = 2
    /\ opCall.result.length = 1
    /\ opCall.renderedBuffer.length = 2
    /\ getChannelData(opCall.renderedBuffer, 0)[0] = TrimThreshold
    /\ getChannelData(opCall.renderedBuffer, 0)[1] = Num(-1)
    /\ getChannelData(opCall.renderedBuffer, 1)[0] = Num(-1)

\* ------------------------------------------------------------------------
\* C14
\* ------------------------------------------------------------------------

\* Below min(sourceLen, targetLen) every sample of the result is the
\* target's sample times the sample of the source's normalized envelope in
\* channel c modulo the source's channel count.
ProductBelowMin ==
    LET envelope == getAmplitudeEnvelope(sourceBuffer, DefaultSmoothing)
    IN  \A c \in 0 .. targetBuffer.numberOfChannels - 1 :
            \A i \in 0 .. IMin(sourceBuffer.length, targetBuffer.length) - 1 :
                getChannelData(opCall.result, c)[i] =
                    NMul(getChannelData(targetBuffer, c)[i],
                         getChannelData(envelope, c % sourceBuffer.numberOfChannels)[i])

\* C14 as stated: the products below min(sourceLen, targetLen), and a
\* result that is min(sourceLen, targetLen) frames long.
C14_ProductTruncated ==
    opCall.op = "applyAmplitudeMapping" =>
        /\ ProductBelowMin
        /\ opCall.result.length = IMin(sourceBuffer.length, targetBuffer.length)

\* C14: the products below min(sourceLen, targetLen); the result has the
\* target's channel count, length and sample rate, and is zero from frame
\* sourceLen on when the source is the shorter one.
C14_ProductZeroPadded ==
    opCall.op = "applyAmplitudeMapping" =>
        /\ ProductBelowMin
        /\ opCall.result.numberOfChannels = targetBuffer.numberOfChannels
        /\ opCall.result.length = targetBuffer.length
        /\ opCall.result.sampleRate = targetBuffer.sampleRate
        /\ \A c \in 0 .. targetBuffer.numberOfChannels - 1 :
              \A i \in sourceBuffer.length .. targetBuffer.length - 1 :
                  getChannelData(opCall.result, c)[i] = Zero

\* A target longer than the source, with a sample that is not zero in the
\* part the source does not reach, and a product that is not zero.
C14_Witness ==
    /\ opCall.op = "applyAmplitudeMapping"
    /\ sourceBuffer.length < targetBuffer.length
    /\ getChannelData(targetBuffer, 0)[targetBuffer.length - 1] # Zero
    /\ getChannelData(opCall.result, 0)[0] # Zero
    /\ C14_ProductZeroPadded

\* A stereo target and a stereo source whose channels have different
\* envelopes.
C14_WitnessStereo ==
    /\ opCall.op = "applyAmplitudeMapping"
    /\ sourceBuffer.numberOfChannels = 2 /\ targetBuffer.numberOfChannels = 2
    /\ getChannelData(opCall.result, 0)[0] = Zero
    /\ getChannelData(opCall.result, 1)[0] # Zero

\* ------------------------------------------------------------------------
\* C15
\* ------------------------------------------------------------------------

\* The players of a rendered Time Scale Warping call.
WarpPlayers == opCall.result.graph.players

WarpRendered == opCall.op = "applyTimeScaleWarping" /\ opCall.result.id = "rendered"

\* The frames of the source segments of the given players.
RECURSIVE PlayedSourceFrames(_, _)
PlayedSourceFrames(players, k) ==
    IF k > Len(players) THEN 0
    ELSE (opCall.sourceTransients[players[k].segment + 2] - opCall.sourceTransients[players[k].segment + 1])
         + PlayedSourceFrames(players, k + 1)

\* The frames of the first n source segments.
RECURSIVE MatchedSourceFrames(_)
MatchedSourceFrames(n) ==
    IF n = 0 THEN 0
    ELSE (opCall.sourceTransients[n + 1] - opCall.sourceTransients[n]) + MatchedSourceFrames(n - 1)

\* Every player plays a segment pair both of whose segments last 10 ms or
\* more; it plays the target segment at the rate that makes it last as
\* long as the source segment, and starts where the player before it ends,
\* the first at 0.
PlayersStretchedAndAbutting ==
    \A k \in 1 .. Len(WarpPlayers) :
        LET player == WarpPlayers[k]
            sourceFrames == opCall.sourceTransients[player.segment + 2] - opCall.sourceTransients[player.segment + 1]
            targetFrames == opCall.targetTransients[player.segment + 2] - opCall.targetTransients[player.segment + 1]
        IN  /\ sourceFrames * 100 >= sourceBuffer.sampleRate
            /\ targetFrames * 100 >= targetBuffer.sampleRate
            /\ player.duration = Frac(targetFrames, targetBuffer.sampleRate)
            /\ NDiv(player.duration, player.playbackRate) = Frac(sourceFrames, sourceBuffer.sampleRate)
            /\ player.when = Frac(PlayedSourceFrames(SubSeq(WarpPlayers, 1, k - 1), 1), sourceBuffer.sampleRate)

C15_WitnessTwo ==
    /\ WarpRendered
    /\ Len(WarpPlayers) = 2
    /\ WarpPlayers[2].when # Zero
    /\ WarpPlayers[1].playbackRate # One
    /\ WarpPlayers[2].playbackRate # One

\* ------------------------------------------------------------------------
\* C16
\* ------------------------------------------------------------------------

\* C16: in a morph call both sub-calls have the source, target and params
\* of the call; a sub-call that has not settled can settle whatever the
\* other one has done; the cross-fade is being rendered or has been only
\* when both sub-calls have returned, and it mixes their two results; when
\* a sub-call has failed there is no cross-fade, and the call can fail and
\* cannot return.
C16_CrossFadeAfterBoth ==
    morphCall.pc # "none" =>
        /\ \A which \in {"a", "b"} :
              /\ morphCall[which].source = sourceBuffer
              /\ morphCall[which].target = targetBuffer
              /\ morphCall[which].params = transformationParams
              /\ morphCall[which].end = Pending => ENABLED SettleRun(which)
        /\ morphCall.pc \in {"rendering", "returned"} =>
              morphCall.a.end.outcome = "return" /\ morphCall.b.end.outcome = "return"
        /\ morphCall.pc = "returned" =>
              /\ morphCall.end.buffer.graph.resultA = morphCall.a.end.buffer
              /\ morphCall.end.buffer.graph.resultB = morphCall.b.end.buffer
        /\ AnyRejected(morphCall.a.end, morphCall.b.end) =>
              /\ morphCall.pc \in {"awaiting", "rejected"}
              /\ morphCall.pc = "awaiting" => ENABLED PromiseAllRejected
              /\ morphCall.pc = "rejected" => morphCall.end.outcome = "throw"

\* A cross-fade rendered from the results of two different operators.
C16_Witness ==
    /\ morphCall.pc = "returned"
    /\ morphCall.a.type # morphCall.b.type
    /\ morphCall.end.buffer.graph.resultA # morphCall.end.buffer.graph.resultB

\* Sub-call B settled while A has not.
C16_WitnessBFirst ==
    /\ morphCall.pc = "awaiting"
    /\ morphCall.a.end = Pending
    /\ morphCall.b.end.outcome = "return"

\* The call failed through B while A returned.
C16_WitnessFailed ==
    /\ morphCall.pc = "rejected"
    /\ morphCall.a.end.outcome = "return"
    /\ morphCall.b.end.outcome = "throw"

\* ------------------------------------------------------------------------
\* C17
\* ------------------------------------------------------------------------

\* C17: after a call of any operator or feature extractor, one that fails
\* or passes the target through included, the source and the target buffer
\* are as they were before it, and every array the call wrote is the
\* channel data of a buffer the call created or an array it allocated.
C17_InputsNotWritten ==
    opCall.op \in TransformationType \cup {UnknownType} \cup Extractors =>
        /\ sourceBuffer = opCall.sourceBefore
        /\ targetBuffer = opCall.targetBefore
        /\ \A array \in opCall.arrays : array.origin \in {"new", "scratch"}

\* A Surface Translation call, which sorts a copy of the target's samples
\* in place, made within a morph.
C17_Witness ==
    /\ opCall.op = TRANSFORMATION_MORPH
    /\ opCall.transformA = SURFACE_TRANSLATE
    /\ opCall.transformB = UnknownType
    /\ FreshArray \in opCall.arrays
    /\ targetBuffer.length > 1
    /\ C17_InputsNotWritten

\* ------------------------------------------------------------------------
\* C18
\* ------------------------------------------------------------------------

\* The transform's three tables have every element of the tables of size.
FullyBuilt(size, transform) ==
    /\ transform.bitReverse = bitReverse(size)
    /\ transform.sinTable = sinTable(size)
    /\ transform.cosTable = cosTable(size)

\* Every value of the Map is fully built, and so is what a call returned.
CacheFullyBuilt ==
    /\ DOMAIN fftEntries = fftCache
    /\ \A size \in fftCache : FullyBuilt(size, fftEntries[size])
    /\ fftCall.outcome = "return" => FullyBuilt(fftCall.size, fftCall.transform)

\* A step keeps every entry of the Map as it is, and a step that ends a
\* call by a throw leaves the Map as it is.
CacheOnlyGrows ==
    /\ \A size \in fftCache : size \in fftCache' /\ fftEntries'[size] = fftEntries[size]
    /\ (fftCall' # fftCall /\ fftCall'.outcome = "throw") => (fftCache' = fftCache /\ fftEntries' = fftEntries)

\* C18: the Map only ever holds fully built transforms and a call only ever
\* returns one; an entry is inserted with all its tables filled, is never
\* removed and never replaced; a call that throws leaves the Map unchanged -
\* in whatever order the calls are made.
C18_CacheHoldsBuiltTransforms == [](CacheFullyBuilt) /\ [][CacheOnlyGrows]_vars

\* Two sizes cached, a cached transform handed out again, and earlier a
\* call that threw.
C18_Witness ==
    /\ fftCache = {2, 4}
    /\ fftCall.outcome = "return"
    /\ fftCall.n = 3
    /\ fftCall.transform.serial = 1
    /\ fftBuild = NoBuild

\* A call that threw with an entry in the Map.
C18_WitnessThrow ==
    /\ fftCache = {8}
    /\ fftCall.outcome = "throw"

\* A build under way with its tables half filled.
C18_WitnessHalf ==
    /\ fftBuild.pc = "tables"
    /\ fftBuild.size = 8
    /\ fftBuild.i = 4
    /\ 8 \notin fftCache

\* ------------------------------------------------------------------------
\* C19
\* ------------------------------------------------------------------------

\* C19: whenever the source type is Live the selected transformation is
\* Amplitude Mapping or Rhythmic Gating, whatever source type switches and
\* transformation selections came before.
C19_LiveSelectionAvailable == sourceType = LIVE => transformation \in {AMPLITUDE, RHYTHMIC}

\* The source is live and the selection is back at Amplitude Mapping after
\* a morph was selected and run on files.
C19_Witness ==
    /\ sourceType = LIVE
    /\ transformation = AMPLITUDE
    /\ fileCall.outcome = "return"
    /\ fileCall.transformation = TRANSFORMATION_MORPH

\* Live processing runs with Rhythmic Gating selected.
C19_WitnessLive ==
    /\ sourceType = LIVE
    /\ isLive
    /\ transformation = RHYTHMIC

\* ------------------------------------------------------------------------
\* C20
\* ------------------------------------------------------------------------

\* C20 as stated: with a source and a target loaded, the processed audio
\* shown was computed from that source and that target, so that a result of
\* files replaced while the transform was in flight is never shown.
C20_StaleResultDiscarded ==
    (processedAudio # Null /\ sourceBuffer # NoBuffer /\ targetBuffer # NoBuffer)
        => (fileCall.source = sourceBuffer /\ fileCall.target = targetBuffer)

\* ------------------------------------------------------------------------
\* C21
\* ------------------------------------------------------------------------

\* The messages a failed handleFileTransform run can show.
TransformErrors == {"Unknown transformation type", "Invalid transformation type for morphing"}

C21_WitnessReturned ==
    /\ fileCall.outcome = "return"
    /\ transformation = RHYTHMIC
    /\ processedAudio.buffer.id = "new"
    /\ error = Null
    /\ isLoading = FALSE

\* ------------------------------------------------------------------------
\* C22
\* ------------------------------------------------------------------------

\* cos(pi*m/8) and sin(pi*m/8) for every integer m.
CosTurn(m) == IF m % 16 < 8 THEN CosPi8(m % 16) ELSE NNeg(CosPi8((m % 16) - 8))

SinTurn(m) == IF m % 16 < 8 THEN SinPi8(m % 16) ELSE NNeg(SinPi8((m % 16) - 8))

\* Entry k of the discrete Fourier transform of st, the terms from n on:
\* the sum of x[n] * (cos(2 pi n k / size) + i * sign * sin(2 pi n k / size)).
RECURSIVE DFTSum(_, _, _, _, _)
DFTSum(st, size, k, sign, n) ==
    IF n >= size THEN [re |-> Zero, im |-> Zero]
    ELSE Only({ [re |-> NAdd(NSub(NMul(st.re[n], c), NMul(st.im[n], s)), rest.re),
                 im |-> NAdd(NAdd(NMul(st.re[n], s), NMul(st.im[n], c)), rest.im)] :
                c \in {CosTurn((16 \div size) * n * k)},
                s \in {IF sign > 0 THEN SinTurn((16 \div size) * n * k)
                       ELSE NNeg(SinTurn((16 \div size) * n * k))},
                rest \in {DFTSum(st, size, k, sign, n + 1)} })

\* The discrete Fourier transform with the given sign of the sine term,
\* divided by size when scaled.
DFT(st, size, sign, scaled) ==
    [re |-> [k \in 0 .. size - 1 |->
                IF scaled THEN NDiv(DFTSum(st, size, k, sign, 0).re, Num(size))
                ELSE DFTSum(st, size, k, sign, 0).re],
     im |-> [k \in 0 .. size - 1 |->
                IF scaled THEN NDiv(DFTSum(st, size, k, sign, 0).im, Num(size))
                ELSE DFTSum(st, size, k, sign, 0).im]]

\* The twiddle factor of angle 2*pi*j/len, its sine negated for the
\* inverse transform.
TwiddleOfFullAngle(len, j, invert) ==
    [re |-> CosTurn((16 \div len) * j),
     im |-> IF invert THEN NNeg(SinTurn((16 \div len) * j)) ELSE SinTurn((16 \div len) * j)]

\* C22 as stated: the transform is the radix-2 Cooley-Tukey DFT.  In every
\* stage len = 2, 4, .., N and at every position j < len/2 the twiddle
\* factor read from the tables is the one of angle 2*pi*j/len, with the
\* sine negated for the inverse, and the arrays after one transform hold
\* the discrete Fourier transform of what they held (the sine term with
\* the sign of the twiddle factor, divided by N for the inverse).
C22_IsCooleyTukeyDFT ==
    Len(applied) = 1
        => /\ \A e \in 1 .. Log2(arr.size) : \A j \in 0 .. 2 ^ (e - 1) - 1 :
                 Twiddle(arr.size, 2 ^ e, j, applied[1]) = TwiddleOfFullAngle(2 ^ e, j, applied[1])
           /\ [re |-> arr.re, im |-> arr.im]
                 = DFT(arrIn, arr.size, IF applied[1] THEN -1 ELSE 1, applied[1])

\* What holds of it: for the sizes 1 and 2, whose only twiddle factor is
\* the one of angle 0, the arrays after one transform hold the discrete
\* Fourier transform.
C22_IsDFTUpToSizeTwo ==
    (Len(applied) = 1 /\ arr.size <= 2)
        => [re |-> arr.re, im |-> arr.im] = DFT(arrIn, arr.size, IF applied[1] THEN -1 ELSE 1, applied[1])

\* ------------------------------------------------------------------------
\* C23
\* ------------------------------------------------------------------------

\* What a signal leaving a node of seen reaches without entering a node of
\* avoided.
RECURSIVE Reached(_, _, _)
Reached(edges, seen, avoided) ==
    Only({ IF next \subseteq seen THEN seen ELSE Reached(edges, seen \cup next, avoided) :
           next \in {{e[2] : e \in {d \in edges : d[1] \in seen /\ d[2] \notin avoided}}} })

\* The bands whose round of the forEach is through.
BandsBuilt == 1 .. (audioGraph.band - 1)

\* C23 as stated: in every band built, the band-passed source reaches the
\* gain parameter of the band's target gain, and it does so only through
\* the rectifier and only through the low-pass of the envelope follower.
C23_GainControlledByEnvelope ==
    audioGraph.pc \in {"forEach", "rendered"}
        => \A band \in BandsBuilt :
              /\ Node("targetGain.gain", band)
                    \in Reached(audioGraph.edges, {Node("sourceFilter", band)}, {})
              /\ Node("targetGain.gain", band)
                    \notin Reached(audioGraph.edges, {Node("sourceFilter", band)},
                                   {Node("rectifierShaper", band)})
              /\ Node("targetGain.gain", band)
                    \notin Reached(audioGraph.edges, {Node("sourceFilter", band)}, {Node("lowpass", band)})

\* What holds of it: in every band built the gain parameter is reached
\* from the band-pass of the source through rectifierGain alone, and
\* nothing leaves the low-pass of the follower.
C23_GainControlledByBandPass ==
    audioGraph.pc \in {"forEach", "rendered"}
        => \A band \in BandsBuilt :
              /\ Reached(audioGraph.edges, {Node("sourceFilter", band)},
                         {Node("rectifierShaper", band), Node("lowpass", band)})
                    = {Node("sourceFilter", band), Node("rectifierGain", band), Node("targetGain.gain", band)}
              /\ Reached(audioGraph.edges, {Node("lowpass", band)}, {}) = {Node("lowpass", band)}

\* ------------------------------------------------------------------------
\* C24
\* ------------------------------------------------------------------------

\* The entries of a list of magnitudes that are strictly greater than the
\* entry before and the entry after, both in the list.
LocalMaxima(magnitudes) ==
    {k \in 2 .. Len(magnitudes) - 1 :
        NGt(magnitudes[k].mag, magnitudes[k - 1].mag) /\ NGt(magnitudes[k].mag, magnitudes[k + 1].mag)}

\* The entries of the list a returned frequency belongs to.
EntriesOf(magnitudes, freq) == {k \in 1 .. Len(magnitudes) : magnitudes[k].freq = freq}

\* The list searched: the bins 1 .. N/2 - 1 for detectHarmonics, those of
\* them from 300 Hz to 5000 Hz for detectFormants, neighbours in the list
\* being neighbouring bins.
IsSearchedRange(op, magnitudes) ==
    /\ \A k \in 1 .. Len(magnitudes) - 1 :
          NSub(magnitudes[k + 1].freq, magnitudes[k].freq) \in
              {Frac(sampleRate, arr.size) : sampleRate \in SpectrumRates}
    /\ op = "detectHarmonics" => Len(magnitudes) = (arr.size \div 2) - 1
    /\ op = "detectFormants" => \A k \in 1 .. Len(magnitudes) : InBand(magnitudes[k].freq)

\* C24: detectHarmonics and detectFormants return as many frequencies as
\* asked for, or all if there are fewer strict local maxima in the range
\* searched (none if there is none); each frequency returned is that of
\* one such bin, no bin twice; the list is in descending order of
\* magnitude and no bin left out has a greater magnitude than one returned.
C24_TopLocalMaxima ==
    opCall.op \in {"detectHarmonics", "detectFormants"}
        => LET magnitudes == opCall.magnitudes
               result == opCall.result
               maxima == LocalMaxima(magnitudes)
               bin == [i \in 1 .. Len(result) |-> CHOOSE k \in 1 .. Len(magnitudes) : magnitudes[k].freq = result[i]]
           IN  /\ IsSearchedRange(opCall.op, magnitudes)
               /\ Len(result) = IMin(opCall.count, Cardinality(maxima))
               /\ \A i \in 1 .. Len(result) :
                     /\ Cardinality(EntriesOf(magnitudes, result[i])) = 1
                     /\ bin[i] \in maxima
               /\ \A i, j \in 1 .. Len(result) : i # j => bin[i] # bin[j]
               /\ \A i \in 1 .. Len(result) - 1 : ~NLt(magnitudes[bin[i]].mag, magnitudes[bin[i + 1]].mag)
               /\ \A k \in maxima \ {bin[i] : i \in 1 .. Len(result)} :
                     \A i \in 1 .. Len(result) : ~NGt(magnitudes[k].mag, magnitudes[bin[i]].mag)

\* detectHarmonics asked for two of three peaks of different magnitudes:
\* the two greater ones, the greater first.
C24_Witness ==
    /\ opCall.op = "detectHarmonics"
    /\ opCall.count = 2
    /\ LocalMaxima(opCall.magnitudes) = {2, 4, 6}
    /\ opCall.magnitudes[2].mag = One
    /\ opCall.magnitudes[4].mag = Num(4)
    /\ opCall.magnitudes[6].mag = One
    /\ Len(opCall.result) = 2
    /\ opCall.result[1] = opCall.magnitudes[4].freq
    /\ opCall.result[2] = opCall.magnitudes[2].freq

\* detectFormants with fewer peaks in the band than asked for, a greater
\* bin below the band being left out.
C24_WitnessFormants ==
    /\ opCall.op = "detectFormants"
    /\ opCall.count = 12
    /\ Len(opCall.magnitudes) = 5
    /\ opCall.magnitudes[1].freq = Num(300)
    /\ arr.re[2] = Num(2)
    /\ arr.re[1] = Zero
    /\ arr.re[3] = One
    /\ Len(opCall.result) = 1

\* No peak at all: the empty list.
C24_WitnessNone ==
    /\ opCall.op = "detectHarmonics"
    /\ LocalMaxima(opCall.magnitudes) = {}
    /\ arr.re[1] = Num(2)
    /\ opCall.result = <<>>

\* ------------------------------------------------------------------------
\* C25
\* ------------------------------------------------------------------------

\* The sum of the phase increments of the frames k < i.
RECURSIVE IntegratedPhase(_, _, _, _, _)
IntegratedPhase(sourceEnvData, ringModBaseFreq, ringModRange, sr, i) ==
    IF i <= 0 THEN Zero
    ELSE NAdd(IntegratedPhase(sourceEnvData, ringModBaseFreq, ringModRange, sr, i - 1),
              PhaseIncrement(EnvValue(sourceEnvData, i - 1), ringModBaseFreq, ringModRange, sr))

\* Two phases that differ by a whole number of turns.
SamePhase(p, q) == Only({ turns.d = 1 /\ IsRational(turns) : turns \in {NDiv(NSub(p, q), TwoPi)} })

\* Frame i of channel c of the result is the target sample, mixed as by
\* ringModMix with its product by the carrier at the phase integrated from
\* 0 at frame 0.
IsRingSample(c, i) ==
    /\ opCall.result.channels[c][i].target = getChannelData(targetBuffer, c - 1)[i]
    /\ opCall.result.channels[c][i].mix = opCall.ringModMix
    /\ SamePhase(opCall.result.channels[c][i].phase,
                 IntegratedPhase(getChannelData(getAmplitudeEnvelope(sourceBuffer, RingSmoothing), 0),
                                 opCall.ringModBaseFreq, opCall.ringModRange, targetBuffer.sampleRate, i))

\* C25 as stated: in every channel of the target, the phase of the carrier
\* at frame i is the sum of the increments of the frames before i, wrapped
\* at 2*pi, counted from 0 at frame 0 of that channel, so that every
\* channel is multiplied by the same carrier.
C25_EveryChannelSameCarrier ==
    opCall.op = "applyDynamicRingModulation"
        => \A c \in 1 .. targetBuffer.numberOfChannels : \A i \in 0 .. targetBuffer.length - 1 : IsRingSample(c, i)

\* What holds of it: the first channel is as stated.
C25_FirstChannelCarrier ==
    opCall.op = "applyDynamicRingModulation"
        => \A i \in 0 .. targetBuffer.length - 1 : IsRingSample(1, i)

\* ------------------------------------------------------------------------
\* C26
\* ------------------------------------------------------------------------

\* The arrays st read through the table: position i holds what st had at table[i].
TablePermuted(st, size) ==
    [re |-> [i \in 0 .. size - 1 |-> st.re[bitReverse(size)[i]]],
     im |-> [i \in 0 .. size - 1 |-> st.im[bitReverse(size)[i]]]]

\* Entry i of the table of a size, as the loop that fills the table computes it.
TableEntry(size, i) == ReverseBits(i, 0, Log2(size))

\* Round i of the swap loop swaps: its test j > i passes.
Swaps(size, i) == TableEntry(size, i) > i

\* The table of a size is a permutation of 0..size-1 and its own inverse, and
\* of the two positions of a pair exactly one is a round that swaps.
IsSelfInverseTable(size) ==
    /\ {TableEntry(size, i) : i \in 0 .. size - 1} = 0 .. size - 1
    /\ \A i \in 0 .. size - 1 :
          Only({ /\ j \in 0 .. size - 1
                 /\ TableEntry(size, j) = i
                 /\ j # i => (Swaps(size, i) # Swaps(size, j))
                 /\ j = i => ~Swaps(size, i) :
                 j \in {TableEntry(size, i)} })

\* C26: for every size getFFT accepts, the bit-reversal table is a permutation
\* of 0..size-1 that is its own inverse, the swap loop swaps each pair of
\* positions in exactly one of its rounds, and the arrays leave the loop
\* permuted by the table: a forward transform is the butterfly stages applied
\* to the arrays read through the table.
C26_SwapLoopPermutesByTable ==
    /\ fftCall.outcome = "return" => IsSelfInverseTable(fftCall.size)
    /\ arr # NoArrays =>
          /\ IsSelfInverseTable(arr.size)
          /\ Permute([re |-> arrIn.re, im |-> arrIn.im], arr.size, 0)
                = TablePermuted([re |-> arrIn.re, im |-> arrIn.im], arr.size)
    /\ applied = <<FALSE>> =>
          [re |-> arr.re, im |-> arr.im]
             = Stages(TablePermuted([re |-> arrIn.re, im |-> arrIn.im], arr.size), arr.size, 2, FALSE)

\* A forward transform of size 8 has run on arrays whose position 1, which
\* the table pairs with position 4, held the only non-zero sample of real.
C26_Witness ==
    /\ applied = <<FALSE>>
    /\ arr.size = 8
    /\ bitReverse(8)[1] = 4
    /\ arrIn.re[1] # Zero
    /\ arrIn.re[4] = Zero
    /\ Permute([re |-> arrIn.re, im |-> arrIn.im], 8, 0).re[4] = arrIn.re[1]
    /\ Permute([re |-> arrIn.re, im |-> arrIn.im], 8, 0) # [re |-> arrIn.re, im |-> arrIn.im]

\* getFFT(1024) has returned, with a table of 1024 entries.
C26_WitnessLargeTable ==
    /\ fftCall = [size |-> 1024, outcome |-> "return"]
    /\ bitReverse(1024)[1] = 512

\* ------------------------------------------------------------------------
\* C27
\* ------------------------------------------------------------------------

\* The last stop() left the four fields null, and changed nothing if they
\* were null already.
StopLeavesStopped ==
    /\ processor.lastStop.after.fields = AllNull
    /\ processor.lastStop.before.fields = AllNull => processor.lastStop.after = processor.lastStop.before

\* A start() on a started processor made no context, and no context but the
\* one in the field is open.
NoSecondContext ==
    /\ \A k \in DOMAIN processor.starts :
          processor.starts[k].at = "warned" => processor.starts[k].made = 0
    /\ (1 .. processor.contexts) \ processor.closed = {processor.fields.context} \ {0}

\* Start call k has ended with an error raised and the four fields null.
EndedStopped(k) ==
    /\ processor.starts[k].at = "threw"
    /\ processor.starts[k].end = AllNull

\* Start call k has ended after a failure or after a stop() found it waiting.
EndedFailedOrOvertaken(k) ==
    /\ processor.starts[k].at \in {"returned", "threw"}
    /\ processor.starts[k].failed \/ processor.starts[k].overtaken

\* C27: under every interleaving of start() and stop() calls on a processor,
\* stop() leaves the context and the three node references null and a stop()
\* of a stopped processor changes nothing, start() on a started processor
\* makes no second context, and every start() that fails or that a stop()
\* overtakes while it awaits ends with an error raised and the processor
\* fully stopped.
C27_LifecycleConsistent ==
    processor.pc = "constructed" =>
        /\ StopLeavesStopped
        /\ NoSecondContext
        /\ \A k \in DOMAIN processor.starts : EndedFailedOrOvertaken(k) => EndedStopped(k)

\* The same, with the last part for the start() calls during whose awaits no
\* later start() made a context.
C27_ConsistentUnlessStartsOverlap ==
    processor.pc = "constructed" =>
        /\ StopLeavesStopped
        /\ NoSecondContext
        /\ \A k \in DOMAIN processor.starts :
              EndedFailedOrOvertaken(k) /\ ~processor.starts[k].joined => EndedStopped(k)

\* A start() that a stop() overtook has ended with an error and the
\* processor stopped, and a stop() of the stopped processor has followed.
C27_WitnessOvertaken ==
    /\ processor.pc = "constructed"
    /\ \E k \in DOMAIN processor.starts :
          /\ processor.starts[k].overtaken
          /\ ~processor.starts[k].failed
          /\ ~processor.starts[k].joined
          /\ EndedStopped(k)
    /\ processor.stops = 2
    /\ processor.lastStop.before.fields = AllNull
    /\ \E k \in DOMAIN processor.starts : processor.starts[k].at = "warned"

\* ------------------------------------------------------------------------
\* C28
\* ------------------------------------------------------------------------

\* isSonifying and isPlaying are not both true.
NotSonifyingAndPlaying == ~(manager.state.isSonifying /\ manager.state.isPlaying)

\* C28: in every state of the manager, whatever the interleaving of
\* togglePlayPause, resetForAudio and the completions of audio generations,
\* isPlaying implies that activeAudioName is not null and is the name given
\* to the togglePlayPause call that started the playback, and isSonifying and
\* isPlaying are not both true.
C28_PlayingUnderItsName ==
    manager.pc = "constructed" =>
        /\ manager.state.isPlaying =>
              /\ manager.state.activeAudioName # NoAudioName
              /\ manager.state.activeAudioName = manager.playback
        /\ NotSonifyingAndPlaying

\* isSonifying and isPlaying are not both true.
C28_NeverSonifyingAndPlaying == manager.pc = "constructed" => NotSonifyingAndPlaying

\* A generation has completed and its playback runs while the generation of
\* a later call is under way.
C28_WitnessPlayingWhileGenerating ==
    /\ manager.pc = "constructed"
    /\ manager.state.isPlaying
    /\ \E k \in DOMAIN manager.calls : manager.calls[k].at = "factory"

\* ------------------------------------------------------------------------
\* C29
\* ------------------------------------------------------------------------

StageOrder == <<"A", "B", "Blend">>

NonDecreasing(s) == \A i \in 1 .. Len(s) - 1 : s[i] <= s[i + 1]

\* C29: the stages of a generateGeometryData call run in the order A, B,
\* Blend, each in a step of its own that tests the abort signal first.  Once
\* the signal is aborted no further stage runs, the promise never resolves
\* after that, and the step that comes next rejects it with AbortError; the
\* progress values reported never decrease, and 1.0 is reported once, last,
\* by the step that resolves the promise.
C29_StagesInOrderUnlessAborted ==
    generation.pc = "called" =>
        /\ generation.ran = SubSeq(StageOrder, 1, Len(generation.ran))
        /\ (generation.scheduled # "none") =
              (Len(generation.ran) < 3 /\ generation.promise = "pending")
        /\ generation.scheduled # "none" => generation.scheduled = StageOrder[Len(generation.ran) + 1]
        /\ generation.aborted =>
              /\ Len(generation.ran) = generation.ranAtAbort
              /\ generation.promise = "resolved" <=> generation.promiseAtAbort = "resolved"
              /\ generation.promiseAtAbort = "pending" /\ generation.scheduled = "none"
                    => generation.promise = "AbortError"
        /\ NonDecreasing(generation.progress)
        /\ \A i \in 1 .. Len(generation.progress) :
              generation.progress[i] = 100 =>
                 /\ i = Len(generation.progress)
                 /\ generation.promise = "resolved"
                 /\ generation.ran = StageOrder
        /\ generation.promise = "resolved" => generation.progress[Len(generation.progress)] = 100

\* The signal was aborted after stage A of a blend, and the step set for
\* stage B has rejected the promise.
C29_Witness ==
    /\ generation.pc = "called"
    /\ generation.vizMode = "blend"
    /\ generation.aborted
    /\ generation.ran = <<"A">>
    /\ generation.progress = <<5, 40>>
    /\ generation.promise = "AbortError"
    /\ generation.scheduled = "none"

\* A blend has run its three stages and resolved the promise.
C29_WitnessResolved ==
    /\ generation.pc = "called"
    /\ generation.ran = StageOrder
    /\ generation.progress = <<5, 40, 80, 100>>
    /\ generation.promise = "resolved"
    /\ ~generation.aborted

\* ------------------------------------------------------------------------
\* C30
\* ------------------------------------------------------------------------

\* C30: startRendering is called at most once on every offline context the
\* code makes, that of sonifyGeometry included.
C30_RenderedAtMostOnce ==
    audioGraph.pc # "none" => audioGraph.renders <= 1

\* startRendering is called at most twice on the context of sonifyGeometry,
\* and a call that reaches the second one never returns a buffer.
C30_SecondRenderRejected ==
    audioGraph.pc # "none" =>
        /\ audioGraph.renders <= 2
        /\ audioGraph.outcome # "returned"
        /\ audioGraph.renders = 2 /\ audioGraph.pc = "ended" => audioGraph.outcome = "InvalidStateError"

====
